---------------------------- MODULE Spec2Model ----------------------------
(***************************************************************************)
(* tglens: the Telegram export loader (src/src/data_loader.py), the script *)
(* runs of main with the split of the loaded table into the private and    *)
(* the group view (src/app.py), the text extraction used while flattening  *)
(* messages, and the functions that aggregate the loaded table             *)
(* (src/src/visualizations.py, src/src/utils.py).                          *)
(*                                                                         *)
(* JSON values are tagged records [k, v]: k is the Python type of the      *)
(* parsed value, v its payload.  A dict is a record of its keys, a key the *)
(* dict does not hold carries Absent.  Rows of a DataFrame are records of  *)
(* their columns; a DataFrame is the sequence of its rows.                 *)
(***************************************************************************)
EXTENDS Integers, Sequences, FiniteSets, TLC

VARIABLES
    raw_data,          \* TelegramDataLoader.raw_data
    messages_df,       \* TelegramDataLoader.messages_df (Unset until assigned)
    load_ret,          \* what the last load_from_file returned
    extract_ret,       \* what the last extract_messages returned
    st_errors,         \* the st.error messages shown, in order
    private_messages,  \* main: the table handed to the two private tabs
    group_messages,    \* main: the table handed to the group tab
    pc,                \* where the loader / the script run stands
    text_field,        \* _extract_text_content: the argument
    text_out,          \* _extract_text_content: the value returned
    text_again,        \* _extract_text_content applied to text_out
    text_pc,           \* where the text extraction stands
    agg_df,            \* the record set handed to the aggregating functions
    stats,             \* what get_basic_stats(agg_df) returned
    chat_summary,      \* what get_chat_summary(agg_df) returned
    heatmap_data,      \* create_activity_heatmap(agg_df): the matrix of the chart
    period,            \* get_time_period_filter: the window name
    filtered,          \* what get_time_period_filter(agg_df, period) returned
    timeline,          \* create_message_timeline: arguments and chart data
    full_timeline,     \* create_full_timeline: the bounds and the figure
    word_cloud,        \* create_word_cloud: what the call showed
    agg_pc,            \* where the calls on the record set stand
    uploaded_file,     \* main: what st.file_uploader returned in the run
    session_state,     \* st.session_state: the two keys main sets
    shown,             \* main: what the run put on the page
    runs,              \* the script runs of the session so far
    reruns             \* the st.rerun() calls of the session so far

vars == <<raw_data, messages_df, load_ret, extract_ret, st_errors,
          private_messages, group_messages, pc,
          text_field, text_out, text_again, text_pc,
          agg_df, stats, chat_summary, heatmap_data, period, filtered,
          timeline, full_timeline, word_cloud, agg_pc,
          uploaded_file, session_state, shown, runs, reruns>>

loaderVars == <<raw_data, messages_df, load_ret, extract_ret, st_errors,
                private_messages, group_messages, pc>>

textVars == <<text_field, text_out, text_again, text_pc>>

aggVars ==
    <<agg_df, stats, chat_summary, heatmap_data, period, filtered,
      timeline, full_timeline, word_cloud, agg_pc>>

sessionVars == <<uploaded_file, session_state, shown, runs, reruns>>

----------------------------------------------------------------------------
(* Bounds of the model. *)

MaxItems == 3     \* items of a text field that is a list
MaxChats == 2     \* chats of chats.list
MaxMsgs == 2      \* messages of one chat
MaxRuns == 5      \* script runs of one session
MaxAbsent == 2    \* optional fields a message entry lacks (or all of them)

----------------------------------------------------------------------------
(* Python values. *)

Absent == [k |-> "absent", v |-> 0]      \* the key is not in the dict
None == [k |-> "NoneType", v |-> 0]
Unset == [k |-> "unset", v |-> 0]        \* the attribute was never assigned
Str(s) == [k |-> "str", v |-> s]
Num(n) == [k |-> "int", v |-> n]
Bool(b) == [k |-> "bool", v |-> b]
List(items) == [k |-> "list", v |-> items]
Dict(keys) == [k |-> "dict", v |-> keys]
Raised(exc) == [k |-> "raise", v |-> exc]

\* dict.get(key, default)
Get(d, key, default) == IF d.v[key] = Absent THEN default ELSE d.v[key]

\* key in dict
HasKey(d, key) == d.v[key] # Absent

\* isinstance(x, dict) and "text" in x
IsTagged(x) == x.k = "dict" /\ HasKey(x, "text")

\* a text entity of a rich-text run: {"type": ..., "text": t}; t = Absent
\* gives an object that exposes no text field
Entity(t) == Dict([type |-> Str("bold"), text |-> t])

SeqsUpTo(S, n) == UNION {[1..m -> S] : m \in 0..n}

----------------------------------------------------------------------------
(* _extract_text_content. *)

\* a slip in the loop: only the plain strings are collected
RECURSIVE CollectPartsStringsOnly(_, _, _)
CollectPartsStringsOnly(items, i, text_parts) ==
    IF i > Len(items) THEN text_parts
    ELSE IF items[i].k = "str"
    THEN CollectPartsStringsOnly(items, i + 1, Append(text_parts, items[i]))
    ELSE CollectPartsStringsOnly(items, i + 1, text_parts)

\* the loop of lines 120-125: text_parts after the items from i on
RECURSIVE CollectParts(_, _, _)
CollectParts(items, i, text_parts) ==
    IF i > Len(items) THEN text_parts
    ELSE IF items[i].k = "str"
    THEN CollectParts(items, i + 1, Append(text_parts, items[i]))
    ELSE IF IsTagged(items[i])
    THEN CollectParts(items, i + 1, Append(text_parts, items[i].v.text))
    ELSE CollectParts(items, i + 1, text_parts)

\* "".join(text_parts): a part that is not a str raises TypeError
RECURSIVE JoinFrom(_, _, _)
JoinFrom(parts, i, acc) ==
    IF i > Len(parts) THEN Str(acc)
    ELSE IF parts[i].k # "str" THEN Raised("TypeError")
    ELSE JoinFrom(parts, i + 1, acc \o parts[i].v)

Join(parts) == JoinFrom(parts, 1, "")

\* a slip in the last branch: any dict is read with .get("text")
ExtractTextContentGetText(field) ==
    IF field.k = "str" THEN field
    ELSE IF field.k = "list" THEN Join(CollectParts(field.v, 1, <<>>))
    ELSE IF field.k = "dict" THEN Get(field, "text", None)
    ELSE Str("")

ExtractTextContent(field) ==
    IF field.k = "str" THEN field
    ELSE IF field.k = "list" THEN Join(CollectParts(field.v, 1, <<>>))
    ELSE IF IsTagged(field) THEN field.v.text
    ELSE Str("")

----------------------------------------------------------------------------
(* The text fields the extraction is applied to. *)

TextStrings == {"", "a", "b"}

TextScalars == {Str(s) : s \in TextStrings} \cup {Num(123), None, Bool(TRUE)}

\* what the text key of a tagged object may hold
EntityTexts == {Str("b"), Str(""), Num(5), None, List(<<Str("a")>>)}

TextObjects == {Entity(t) : t \in EntityTexts \cup {Absent}}

TextItems == {Str("a"), Str(""), Num(123), None,
              Entity(Str("b")), Entity(Num(5)), Entity(Absent)}

TextLists == {List(items) : items \in SeqsUpTo(TextItems, MaxItems)}

TextInputs == TextScalars \cup TextObjects \cup TextLists

----------------------------------------------------------------------------
(* The text extraction on its own: one call, then a call on its result. *)

LoaderIdle ==
    /\ raw_data = None
    /\ messages_df = Unset
    /\ load_ret = None
    /\ extract_ret = Unset
    /\ st_errors = <<>>
    /\ private_messages = Unset
    /\ group_messages = Unset

\* no record set is being aggregated
AggIdle ==
    /\ agg_df = Unset
    /\ stats = Unset
    /\ chat_summary = Unset
    /\ heatmap_data = Unset
    /\ period = ""
    /\ filtered = Unset
    /\ timeline = Unset
    /\ full_timeline = Unset
    /\ word_cloud = Unset
    /\ agg_pc = "off"

\* what a run put on the page: the welcome text, the toast, the views
\* rendered, and whether the run ended in st.rerun()
Page(welcome, toast, views, rerun) ==
    [welcome |-> welcome, toast |-> toast, views |-> views, rerun |-> rerun]

\* a session in which main has not run yet
SessionIdle ==
    /\ uploaded_file = None
    /\ session_state = [last_uploaded_file |-> Absent,
                        initial_rerun_done |-> Absent]
    /\ shown = Page(FALSE, FALSE, {}, FALSE)
    /\ runs = 0
    /\ reruns = 0

InitText ==
    /\ LoaderIdle
    /\ AggIdle
    /\ SessionIdle
    /\ pc = "off"
    /\ text_field \in TextInputs
    /\ text_out = Unset
    /\ text_again = Unset
    /\ text_pc = "call"

ExtractCall ==
    /\ text_pc = "call"
    /\ text_out' = ExtractTextContent(text_field)
    /\ text_pc' = IF text_out'.k = "raise" THEN "raised" ELSE "returned"
    /\ UNCHANGED <<text_field, text_again>>
    /\ UNCHANGED loaderVars
    /\ UNCHANGED aggVars
    /\ UNCHANGED sessionVars

ExtractAgain ==
    /\ text_pc = "returned"
    /\ text_again' = ExtractTextContent(text_out)
    /\ text_pc' = "again"
    /\ UNCHANGED <<text_field, text_out>>
    /\ UNCHANGED loaderVars
    /\ UNCHANGED aggVars
    /\ UNCHANGED sessionVars

NextText == ExtractCall \/ ExtractAgain

SpecText == InitText /\ [][NextText]_vars

----------------------------------------------------------------------------
(* Python truth, len() and iteration, as extract_messages uses them. *)

Truthy(x) ==
    CASE x.k = "NoneType" -> FALSE
      [] x.k = "bool" -> x.v
      [] x.k = "int" -> x.v # 0
      [] x.k = "str" -> x.v # ""
      [] x.k = "list" -> x.v # <<>>
      [] x.k = "dict" -> \E key \in DOMAIN x.v : x.v[key] # Absent
      [] OTHER -> TRUE

\* len(x) is defined for a str, a list and a dict, and raises otherwise
HasLen(x) == x.k \in {"str", "list", "dict"}

PyLen(x) ==
    CASE x.k = "str" -> Len(x.v)
      [] x.k = "list" -> Len(x.v)
      [] x.k = "dict" -> Cardinality({key \in DOMAIN x.v : x.v[key] # Absent})

\* for item in x: the items as a list, or the exception the loop ends with
\* (a dict and a str iterate over str items, which have no .get)
Iterate(x) ==
    CASE x.k = "list" -> x
      [] x.k \in {"dict", "str"} ->
            IF Truthy(x) THEN Raised("AttributeError") ELSE List(<<>>)
      [] OTHER -> Raised("TypeError")

----------------------------------------------------------------------------
(* Timestamps: pd.to_datetime and the .dt accessors. *)

NaT == [k |-> "NaT", v |-> 0]
NaN == [k |-> "NaN", v |-> 0]
Timestamp(y, mo, d, h, mi, s) ==
    [k |-> "Timestamp",
     v |-> [year |-> y, month |-> mo, day |-> d,
            hour |-> h, minute |-> mi, second |-> s]]

\* the date strings of the model that pandas parses, with their value
ParsedDates ==
    {<<"2024-01-15T10:30:00", Timestamp(2024, 1, 15, 10, 30, 0)>>,
     <<"2024-03-02T23:05:10", Timestamp(2024, 3, 2, 23, 5, 10)>>,
     <<"2024-03-10T12:00:00", Timestamp(2024, 3, 10, 12, 0, 0)>>,
     <<"2024-03-09T23:00:00", Timestamp(2024, 3, 9, 23, 0, 0)>>,
     <<"2024-03-06T09:15:00", Timestamp(2024, 3, 6, 9, 15, 0)>>,
     <<"2024-03-03T12:00:00", Timestamp(2024, 3, 3, 12, 0, 0)>>,
     <<"2024-03-03T11:59:59", Timestamp(2024, 3, 3, 11, 59, 59)>>,
     <<"2024-02-09T12:00:00", Timestamp(2024, 2, 9, 12, 0, 0)>>,
     <<"2023-12-11T12:00:00", Timestamp(2023, 12, 11, 12, 0, 0)>>,
     <<"2023-03-11T12:00:00", Timestamp(2023, 3, 11, 12, 0, 0)>>,
     <<"2023-03-10T12:00:00", Timestamp(2023, 3, 10, 12, 0, 0)>>}

\* pd.to_datetime of one cell: a parsed string is a Timestamp, the empty
\* string and None are NaT, any other string raises
ParseDate(cell) ==
    IF cell.k = "NoneType" THEN NaT
    ELSE IF cell.k = "str" /\ cell.v = "" THEN NaT
    ELSE IF cell.k = "str" /\ \E p \in ParsedDates : p[1] = cell.v
    THEN (CHOOSE p \in ParsedDates : p[1] = cell.v)[2]
    ELSE Raised("ValueError")

\* pd.to_datetime(column): the column of parsed cells, or the first error
RECURSIVE ToDatetimeFrom(_, _, _)
ToDatetimeFrom(column, i, out) ==
    IF i > Len(column) THEN List(out)
    ELSE LET t == ParseDate(column[i]) IN
         IF t.k = "raise" THEN t ELSE ToDatetimeFrom(column, i + 1, Append(out, t))

ToDatetime(column) == ToDatetimeFrom(column, 1, <<>>)

\* days from 1970-01-01 to the civil date (proleptic Gregorian)
DaysFromCivil(y, m, d) ==
    LET yy == IF m <= 2 THEN y - 1 ELSE y
        era == yy \div 400
        yoe == yy - era * 400
        mp == (m + 9) % 12
        doy == (153 * mp + 2) \div 5 + d - 1
        doe == yoe * 365 + yoe \div 4 - yoe \div 100 + doy
    IN era * 146097 + doe - 719468

WeekdayNames == <<"Monday", "Tuesday", "Wednesday", "Thursday", "Friday",
                  "Saturday", "Sunday">>

MonthNames == <<"January", "February", "March", "April", "May", "June",
                "July", "August", "September", "October", "November",
                "December">>

\* .dt.day_name(): 1970-01-01 was a Thursday
DayName(t) ==
    WeekdayNames[((DaysFromCivil(t.v.year, t.v.month, t.v.day) + 3) % 7) + 1]

\* the columns of lines 93-104 for one parsed cell
DerivedColumns(t) ==
    IF t = NaT
    THEN [datetime |-> NaT, date_only |-> NaT, year |-> NaN, month |-> NaN,
          day |-> NaN, hour |-> NaN, weekday |-> NaN, month_name |-> NaN]
    ELSE [datetime |-> t,
          date_only |-> [k |-> "date",
                         v |-> <<t.v.year, t.v.month, t.v.day>>],
          year |-> Num(t.v.year), month |-> Num(t.v.month),
          day |-> Num(t.v.day), hour |-> Num(t.v.hour),
          weekday |-> Str(DayName(t)),
          month_name |-> Str(MonthNames[t.v.month])]

----------------------------------------------------------------------------
(* extract_messages: the record of one message, the two loops, the table. *)

\* a table: the sequence of its rows, a row the record of its columns
Table(rows) == [k |-> "df", v |-> rows]

\* pd.DataFrame(all_messages): one row per dict, one column per key
DataFrame(all_messages) ==
    Table([i \in 1..Len(all_messages) |-> all_messages[i].v])

\* a slip in one default: a missing width becomes 0 instead of None
MessageDataWidthZero(chat_id, chat_name, chat_type, message, text_content) ==
    Dict(
    [chat_id |-> chat_id,
     chat_name |-> chat_name,
     chat_type |-> chat_type,
     message_id |-> Get(message, "id", Num(0)),
     from |-> Get(message, "from", Str("Unknown")),
     from_id |-> Get(message, "from_id", Str("")),
     actor |-> Get(message, "actor", None),
     actor_id |-> Get(message, "actor_id", None),
     date |-> Get(message, "date", Str("")),
     date_unixtime |-> Get(message, "date_unixtime", Num(0)),
     text |-> text_content,
     text_length |-> IF Truthy(text_content) THEN PyLen(text_content) ELSE 0,
     type |-> Get(message, "type", Str("message")),
     action |-> Get(message, "action", None),
     reply_to_message_id |-> Get(message, "reply_to_message_id", None),
     forwarded_from |-> Get(message, "forwarded_from", None),
     media_type |-> Get(message, "media_type", None),
     file |-> Get(message, "file", None),
     width |-> Get(message, "width", Num(0)),
     height |-> Get(message, "height", None),
     duration_seconds |-> Get(message, "duration_seconds", None)])

\* message_data of lines 60-82, text_content being a value len() accepts
MessageData(chat_id, chat_name, chat_type, message, text_content) ==
    Dict(
    [chat_id |-> chat_id,
     chat_name |-> chat_name,
     chat_type |-> chat_type,
     message_id |-> Get(message, "id", Num(0)),
     from |-> Get(message, "from", Str("Unknown")),
     from_id |-> Get(message, "from_id", Str("")),
     actor |-> Get(message, "actor", None),
     actor_id |-> Get(message, "actor_id", None),
     date |-> Get(message, "date", Str("")),
     date_unixtime |-> Get(message, "date_unixtime", Num(0)),
     text |-> text_content,
     text_length |-> IF Truthy(text_content) THEN PyLen(text_content) ELSE 0,
     type |-> Get(message, "type", Str("message")),
     action |-> Get(message, "action", None),
     reply_to_message_id |-> Get(message, "reply_to_message_id", None),
     forwarded_from |-> Get(message, "forwarded_from", None),
     media_type |-> Get(message, "media_type", None),
     file |-> Get(message, "file", None),
     width |-> Get(message, "width", None),
     height |-> Get(message, "height", None),
     duration_seconds |-> Get(message, "duration_seconds", None)])

\* lines 60-83 once text_content is known: the record, or the TypeError of
\* len() on a truthy value that has no length, or what the extraction raised
RowWithText(chat_id, chat_name, chat_type, message, text_content) ==
    IF text_content.k = "raise" THEN text_content
    ELSE IF Truthy(text_content) /\ ~HasLen(text_content)
    THEN Raised("TypeError")
    ELSE MessageData(chat_id, chat_name, chat_type, message, text_content)

\* the body of the inner loop, lines 56-83: the record, or what it raises
\* (.get on a message that is no dict, "".join, len())
MessageRow(chat_id, chat_name, chat_type, message) ==
    IF message.k # "dict" THEN Raised("AttributeError")
    ELSE RowWithText(chat_id, chat_name, chat_type, message,
                     ExtractTextContent(Get(message, "text", Str(""))))

RECURSIVE MessagesLoop(_, _, _, _, _, _)

\* line 83: all_messages.append(message_data), then the next message
AppendRow(chat_id, chat_name, chat_type, messages, i, all_messages, row) ==
    IF row.k = "raise" THEN row
    ELSE MessagesLoop(chat_id, chat_name, chat_type, messages, i + 1,
                      Append(all_messages, row))

\* for message in messages: all_messages after the messages from i on
MessagesLoop(chat_id, chat_name, chat_type, messages, i, all_messages) ==
    IF i > Len(messages) THEN List(all_messages)
    ELSE AppendRow(chat_id, chat_name, chat_type, messages, i, all_messages,
                   MessageRow(chat_id, chat_name, chat_type, messages[i]))

\* the test of line 52: the chat is skipped
SkipsChat(chat_type) ==
    chat_type # Str("personal_chat") /\ chat_type # Str("saved_messages")

RECURSIVE ChatsLoop(_, _, _)

\* the end of one round of the outer loop
NextChat(chats, c, more) ==
    IF more.k = "raise" THEN more ELSE ChatsLoop(chats, c + 1, more.v)

\* lines 51-83 for one chat
ChatBody(chats, c, all_messages, chat_id, chat_name, chat_type, messages) ==
    IF SkipsChat(chat_type) THEN ChatsLoop(chats, c + 1, all_messages)
    ELSE IF messages.k = "raise" THEN messages
    ELSE NextChat(chats, c,
                  MessagesLoop(chat_id, chat_name, chat_type, messages.v, 1,
                               all_messages))

\* a slip in one default: a chat without a name keeps an empty name
ChatStepEmptyName(chats, c, all_messages, chat) ==
    IF chat.k # "dict" THEN Raised("AttributeError")
    ELSE ChatBody(chats, c, all_messages,
                  Get(chat, "id", Num(0)),
                  Get(chat, "name", Str("")),
                  Get(chat, "type", Str("unknown")),
                  Iterate(Get(chat, "messages", List(<<>>))))

\* lines 47-55 for one chat
ChatStep(chats, c, all_messages, chat) ==
    IF chat.k # "dict" THEN Raised("AttributeError")
    ELSE ChatBody(chats, c, all_messages,
                  Get(chat, "id", Num(0)),
                  Get(chat, "name", Str("Saved Messages")),
                  Get(chat, "type", Str("unknown")),
                  Iterate(Get(chat, "messages", List(<<>>))))

\* for chat in chats: all_messages after the chats from c on
ChatsLoop(chats, c, all_messages) ==
    IF c > Len(chats) THEN List(all_messages)
    ELSE ChatStep(chats, c, all_messages, chats[c])

\* for chat in chats, chats being what line 43 found
LoopOver(chats) ==
    IF chats.k = "raise" THEN chats ELSE ChatsLoop(chats.v, 1, <<>>)

\* line 43: .get("list", []) on what .get("chats", {}) gave
ChatsList(chatsObj) ==
    IF chatsObj.k # "dict" THEN Raised("AttributeError")
    ELSE LoopOver(Iterate(Get(chatsObj, "list", List(<<>>))))

\* lines 43-83: all_messages, or the exception that ends the try block
AllMessages(raw) ==
    IF raw.k # "dict" THEN Raised("AttributeError")
    ELSE ChatsList(Get(raw, "chats", Dict([list |-> Absent])))

\* df[name]
Column(df, name) == [i \in 1..Len(df.v) |-> df.v[i][name]]

\* lines 93-104: the rows with the datetime and the derived columns added
WithDerived(df, datetimes) ==
    Table([i \in 1..Len(df.v) |-> df.v[i] @@ DerivedColumns(datetimes[i])])

ErrNoMessages == "No messages found in the uploaded file."
ErrExtracting == "Error extracting messages"
ErrReadingJson == "Error reading JSON file"
ErrProcessing == "Error processing file"
ErrWentWrong == "Something went wrong"

\* line 106: the table is returned and stays on the loader
Returned(table) == [ret |-> table, df |-> table, errors |-> <<>>]

\* lines 91-110, created being the table of line 88 and datetimes what
\* pd.to_datetime made of its date column
ProcessDatetime(created, datetimes) ==
    IF datetimes.k = "raise"
    THEN [ret |-> None, df |-> created, errors |-> <<ErrExtracting>>]
    ELSE Returned(WithDerived(created, datetimes.v))

\* lines 88-106
Created(created) ==
    ProcessDatetime(created, ToDatetime(Column(created, "date")))

\* a slip: the test of line 85 is left out, the empty table is returned
AfterLoopsNoEmptyTest(all, df) ==
    IF all.k = "raise"
    THEN [ret |-> None, df |-> df, errors |-> <<ErrExtracting>>]
    ELSE Created(DataFrame(all.v))

\* lines 85-110, all being all_messages or what the loops raised
AfterLoops(all, df) ==
    IF all.k = "raise"
    THEN [ret |-> None, df |-> df, errors |-> <<ErrExtracting>>]
    ELSE IF all.v = <<>>
    THEN [ret |-> None, df |-> df, errors |-> <<ErrNoMessages>>]
    ELSE Created(DataFrame(all.v))

\* extract_messages on a loader holding raw and the attribute df: what it
\* returns, the attribute afterwards and the errors it shows
ExtractMessagesOutcome(raw, df) ==
    IF ~Truthy(raw) THEN [ret |-> None, df |-> df, errors |-> <<>>]
    ELSE AfterLoops(AllMessages(raw), df)

----------------------------------------------------------------------------
(* load_from_file. *)

\* an uploaded file: whether its bytes decode, whether its text is JSON,
\* and the document the JSON text denotes
Upload(utf8, json, doc) ==
    [k |-> "upload", v |-> [utf8 |-> utf8, json |-> json, doc |-> doc]]

\* json.load(uploaded_file)
JsonLoad(file) ==
    IF ~file.v.utf8 THEN Raised("UnicodeDecodeError")
    ELSE IF ~file.v.json THEN Raised("JSONDecodeError")
    ELSE file.v.doc

\* lines 24-33, parsed being what json.load returned or raised
Loaded(parsed, raw) ==
    IF parsed.k # "raise"
    THEN [ret |-> Bool(TRUE), raw |-> parsed, errors |-> <<>>]
    ELSE IF parsed.v = "JSONDecodeError"
    THEN [ret |-> Bool(FALSE), raw |-> raw, errors |-> <<ErrReadingJson>>]
    ELSE [ret |-> Bool(FALSE), raw |-> raw, errors |-> <<ErrProcessing>>]

\* load_from_file on a loader holding raw: what it returns, raw_data
\* afterwards and the errors it shows
LoadFromFileOutcome(file, raw) ==
    Loaded(JsonLoad(file), raw)

----------------------------------------------------------------------------
(* main: load_into_df, the test of the result, the split into the views. *)

\* load_into_df once load_from_file succeeded: extract_messages
ExtractLoaded(loaded, o) ==
    [ret |-> o.ret, raw |-> loaded.raw, df |-> o.df,
     errors |-> loaded.errors \o o.errors]

AfterLoad(loaded) ==
    IF loaded.ret = Bool(FALSE)
    THEN [ret |-> None, raw |-> loaded.raw, df |-> Unset,
          errors |-> loaded.errors]
    ELSE ExtractLoaded(loaded, ExtractMessagesOutcome(loaded.raw, Unset))

\* load_into_df(uploaded_file): a fresh loader, load_from_file, and
\* extract_messages when the load succeeded
LoadIntoDf(file) == AfterLoad(LoadFromFileOutcome(file, None))

PrivateTypes == {Str("personal_chat"), Str("saved_messages")}
GroupTypes == {Str("private_group"), Str("private_supergroup")}

\* messages[messages["chat_type"].isin(types)].copy()
IsIn(messages, types) ==
    Table(SelectSeq(messages.v, LAMBDA row : row.chat_type \in types))

\* a slip: the st.error of lines 78-80 is left out
WithoutWentWrong(errors) == errors

\* lines 78-80: the errors on the page once main added its own
WithWentWrong(errors) == errors \o <<ErrWentWrong>>

\* messages is None or messages.empty
NoneOrEmpty(messages) == messages = None \/ messages.v = <<>>

\* what st.file_uploader returns for a file: the file under the id the
\* upload was given
UploadedFile(file_id, file) ==
    [k |-> "UploadedFile", v |-> [file_id |-> file_id, file |-> file]]

\* a != b on two uploaded files: they are equal when their file_id is
NotEqual(a, b) == a.v.file_id # b.v.file_id

\* lines 91-94: no file is remembered, or another one than this
IsNewFile(state, uploaded) ==
    \/ state.last_uploaded_file = Absent
    \/ NotEqual(state.last_uploaded_file, uploaded)

\* a slip: the key is never looked up, every run ends in st.rerun()
RerunAlways(state) == TRUE

\* line 115: "initial_rerun_done" not in st.session_state
RerunDue(state) == state.initial_rerun_done = Absent

Tabs == {"general_overview", "contact_analysis", "group_insights"}

\* lines 113-123: st.rerun() ends the run inside the first tab
ViewsRendered(state) ==
    IF RerunDue(state) THEN {"general_overview"} ELSE Tabs

\* lines 90-123: the page of a run that loaded a table
Rendered(state, uploaded) ==
    Page(FALSE, IsNewFile(state, uploaded), ViewsRendered(state),
         RerunDue(state))

\* lines 95 and 116: st.session_state after such a run
StateAfter(state, uploaded) ==
    [last_uploaded_file |-> IF IsNewFile(state, uploaded) THEN uploaded
                            ELSE state.last_uploaded_file,
     initial_rerun_done |-> Bool(TRUE)]

----------------------------------------------------------------------------
(* The uploaded files of the model. *)

MsgFields ==
    {"id", "from", "from_id", "actor", "actor_id", "date", "date_unixtime",
     "text", "type", "action", "reply_to_message_id", "forwarded_from",
     "media_type", "file", "width", "height", "duration_seconds"}

Date1 == Str("2024-01-15T10:30:00")
Date2 == Str("2024-03-02T23:05:10")

\* a message entry holding every field
FullMessage(id, date, text) ==
    Dict([id |-> Num(id), from |-> Str("Alice"), from_id |-> Str("user1"),
          actor |-> Str("Alice"), actor_id |-> Str("user1"), date |-> date,
          date_unixtime |-> Str("1705314600"), text |-> text,
          type |-> Str("service"), action |-> Str("phone_call"),
          reply_to_message_id |-> Num(1), forwarded_from |-> Str("Bob"),
          media_type |-> Str("video_file"), file |-> Str("v.mp4"),
          width |-> Num(640), height |-> Num(480),
          duration_seconds |-> Num(12)])

\* the message entry without the fields of S
Lacking(message, S) ==
    Dict([f \in MsgFields |-> IF f \in S THEN Absent ELSE message.v[f]])

RECURSIVE SubsetsUpTo(_, _)
SubsetsUpTo(S, n) ==
    IF n = 0 THEN {{}}
    ELSE LET less == SubsetsUpTo(S, n - 1)
         IN less \cup {T \cup {f} : T \in less, f \in S}

AbsentSets == SubsetsUpTo(MsgFields, MaxAbsent) \cup {MsgFields}

\* the chats of the model in the order an export lists them: their id,
\* type tag and name; a chat of saved messages carries no name
ChatHeads ==
    <<[type |-> Str("private_group"), id |-> Num(1), name |-> Str("Team")],
      [type |-> Str("personal_chat"), id |-> Num(2), name |-> Str("Alice")],
      [type |-> Str("public_channel"), id |-> Num(3), name |-> Str("News")],
      [type |-> Str("saved_messages"), id |-> Num(4), name |-> Absent],
      [type |-> Str("private_supergroup"), id |-> Num(5), name |-> Str("Club")],
      [type |-> Absent, id |-> Num(6), name |-> Str("Misc")]>>

Chat(head, messages) ==
    Dict([name |-> head.name, type |-> head.type, id |-> head.id,
          messages |-> messages])

PersonalChat(messages) == Chat(ChatHeads[2], messages)

Export(chats) ==
    Dict([about |-> Str("Here is the data you requested."),
          chats |-> Dict([list |-> List(chats)])])

\* message lists of full messages, and the chat without a messages key
MessageLists ==
    {Absent} \cup
    {List([i \in 1..m |-> FullMessage(i, Date1, Str("a"))]) : m \in 0..MaxMsgs}

\* the chats of the heads H, in the order of ChatHeads, with the message
\* lists ms
ChatsAt(H, ms) ==
    [j \in 1..Cardinality(H) |->
        Chat(ChatHeads[CHOOSE h \in H : Cardinality({g \in H : g < h}) = j - 1],
             ms[CHOOSE h \in H : Cardinality({g \in H : g < h}) = j - 1])]

\* exports of up to MaxChats of these chats, each with any message list
ChatDocs ==
    UNION {{Export(ChatsAt(H, ms)) : ms \in [H -> MessageLists]} :
              H \in SubsetsUpTo(1..Len(ChatHeads), MaxChats)}

DateCells == {Date1, Date2, Str("yesterday"), Str(""), None, Absent}

\* one personal chat whose messages differ in their date field
DateDocs ==
    {Export(<<PersonalChat(List([i \in 1..Len(ds) |->
                                    FullMessage(i, ds[i], Str("hi"))]))>>) :
        ds \in SeqsUpTo(DateCells, MaxMsgs) \ {<<>>}}

\* one personal chat of one message lacking a set of fields
FieldDocs ==
    {Export(<<PersonalChat(List(<<Lacking(FullMessage(7, Date1, Str("hi")),
                                          S)>>))>>) :
        S \in AbsentSets}

\* one personal chat of one message, for every shape of the text field
TextDocs ==
    {Export(<<PersonalChat(List(<<FullMessage(7, Date1, t)>>))>>) :
        t \in TextInputs}

\* documents that are not an export of chats
OddDocs ==
    {None, Num(0), Str(""), List(<<>>), List(<<Num(1)>>),
     Dict([about |-> Absent, chats |-> Absent]),
     Dict([about |-> Str("x"), chats |-> Absent]),
     Dict([about |-> Absent, chats |-> Dict([list |-> Absent])]),
     Dict([about |-> Absent, chats |-> List(<<>>)]),
     Dict([about |-> Absent, chats |-> Dict([list |-> None])]),
     Export(<<Num(1)>>),
     Export(<<PersonalChat(None)>>),
     Export(<<PersonalChat(List(<<Str("hi")>>))>>)}

\* one chat of one message whose id, name and type are held, null or
\* missing
HeadDocs ==
    {Export(<<Chat([type |-> type, id |-> id, name |-> name],
                   List(<<FullMessage(7, Date1, Str("hi"))>>))>>) :
        id \in {Num(9), None, Absent},
        name \in {Str("Bob"), None, Absent},
        type \in {Str("personal_chat"), Str("saved_messages"), Absent}}

Docs ==
    ChatDocs \cup DateDocs \cup FieldDocs \cup TextDocs \cup OddDocs
    \cup HeadDocs

Files ==
    {Upload(TRUE, TRUE, doc) : doc \in Docs}
    \cup {Upload(TRUE, FALSE, None), Upload(FALSE, FALSE, None)}

----------------------------------------------------------------------------
(* The loader and the script run. *)

Init ==
    /\ LoaderIdle
    /\ AggIdle
    /\ SessionIdle
    /\ pc = "new"
    /\ text_field = Str("")
    /\ text_out = Unset
    /\ text_again = Unset
    /\ text_pc = "off"

\* the files of a second load_from_file on the same loader: one that is
\* no JSON, one that is no text, and an export
Reloads ==
    {Upload(TRUE, FALSE, None), Upload(FALSE, FALSE, None),
     Upload(TRUE, TRUE,
            Export(<<PersonalChat(List(<<FullMessage(9, Date2,
                                                     Str("hi"))>>))>>))}

\* load_from_file, on a new loader and once more after a first load
LoadFromFile ==
    /\ pc \in {"new", "loaded"}
    /\ \E file \in (IF pc = "new" THEN Files ELSE Reloads) :
       \E o \in {LoadFromFileOutcome(file, raw_data)} :
         /\ raw_data' = o.raw
         /\ load_ret' = o.ret
         /\ st_errors' = st_errors \o o.errors
    /\ pc' = IF pc = "new" THEN "loaded" ELSE "reloaded"
    /\ UNCHANGED <<messages_df, extract_ret, private_messages, group_messages>>
    /\ UNCHANGED textVars
    /\ UNCHANGED aggVars
    /\ UNCHANGED sessionVars

ExtractMessages ==
    /\ pc \in {"new", "loaded", "reloaded"}
    /\ \E o \in {ExtractMessagesOutcome(raw_data, messages_df)} :
         /\ extract_ret' = o.ret
         /\ messages_df' = o.df
         /\ st_errors' = st_errors \o o.errors
    /\ pc' = "extracted"
    /\ UNCHANGED <<raw_data, load_ret, private_messages, group_messages>>
    /\ UNCHANGED textVars
    /\ UNCHANGED aggVars
    /\ UNCHANGED sessionVars

\* lines 36-71: no file is chosen, the welcome text is shown
Welcome ==
    /\ shown' = Page(TRUE, FALSE, {}, FALSE)
    /\ st_errors' = <<>>
    /\ raw_data' = None
    /\ messages_df' = Unset
    /\ load_ret' = None
    /\ extract_ret' = Unset
    /\ private_messages' = Unset
    /\ group_messages' = Unset
    /\ UNCHANGED <<session_state, reruns>>

\* lines 73-123, o being what load_into_df did
Loading(uploaded, o) ==
    /\ raw_data' = o.raw
    /\ messages_df' = o.df
    /\ load_ret' = Bool(JsonLoad(uploaded.v.file).k # "raise")
    /\ extract_ret' = o.ret
    /\ IF NoneOrEmpty(o.ret)
       THEN /\ st_errors' = WithWentWrong(o.errors)
            /\ UNCHANGED reruns
            /\ shown' = Page(FALSE, FALSE, {}, FALSE)
            /\ private_messages' = Unset
            /\ group_messages' = Unset
            /\ UNCHANGED session_state
       ELSE /\ st_errors' = o.errors
            /\ private_messages' = IsIn(o.ret, PrivateTypes)
            /\ group_messages' = IsIn(o.ret, GroupTypes)
            /\ shown' = Rendered(session_state, uploaded)
            /\ session_state' = StateAfter(session_state, uploaded)
            /\ reruns' = IF RerunDue(session_state) THEN reruns + 1
                          ELSE reruns

\* one script run of main, uploaded being what st.file_uploader returned;
\* the page of the run before is cleared
ScriptRun(uploaded) ==
    /\ uploaded_file' = uploaded
    /\ runs' = runs + 1
    /\ pc' = "run"
    /\ IF uploaded = None THEN Welcome
       ELSE \E o \in {LoadIntoDf(uploaded.v.file)} : Loading(uploaded, o)
    /\ UNCHANGED textVars
    /\ UNCHANGED aggVars

\* the first script run of a session, with a file uploaded
Main ==
    /\ pc = "new"
    /\ \E file \in Files : ScriptRun(UploadedFile(1, file))

Next ==
    \/ LoadFromFile
    \/ ExtractMessages
    \/ Main

Spec == Init /\ [][Next]_vars

----------------------------------------------------------------------------
(* pandas on the columns of a table, as the aggregating functions use it. *)

\* isna(x)
IsNa(x) == x.k \in {"NoneType", "NaN", "NaT"}

\* the cells of a column that hold a value
NotNa(cells) == {cells[i] : i \in {j \in 1..Len(cells) : ~IsNa(cells[j])}}

\* seconds from 1970-01-01T00:00:00 to the timestamp
EpochSeconds(t) ==
    DaysFromCivil(t.v.year, t.v.month, t.v.day) * 86400
    + t.v.hour * 3600 + t.v.minute * 60 + t.v.second

\* Series.max() and Series.min() of a datetime column: NaT cells are
\* skipped, a column without a timestamp gives NaT
LatestOf(S) ==
    IF S = {} THEN NaT
    ELSE CHOOSE t \in S : \A u \in S : EpochSeconds(u) <= EpochSeconds(t)

EarliestOf(S) ==
    IF S = {} THEN NaT
    ELSE CHOOSE t \in S : \A u \in S : EpochSeconds(t) <= EpochSeconds(u)

SeriesMax(cells) == LatestOf(NotNa(cells))

SeriesMin(cells) == EarliestOf(NotNa(cells))

\* (later - earlier).days: the whole days of the Timedelta, NaN for NaT
TimedeltaDays(later, earlier) ==
    IF later = NaT \/ earlier = NaT THEN NaN
    ELSE Num((EpochSeconds(later) - EpochSeconds(earlier)) \div 86400)

\* number + 1, NaN staying NaN
PlusOne(x) == IF x = NaN THEN NaN ELSE Num(x.v + 1)

\* Series.nunique(): the distinct values, null cells left out
NUnique(cells) == Cardinality(NotNa(cells))

\* Series.notna().sum(), which is also Series.count()
CountNotNa(cells) == Cardinality({i \in 1..Len(cells) : ~IsNa(cells[i])})

RECURSIVE SumInts(_)
SumInts(ints) == IF ints = <<>> THEN 0 ELSE Head(ints) + SumInts(Tail(ints))

RECURSIVE Gcd(_, _)
Gcd(a, b) == IF b = 0 THEN a ELSE Gcd(b, a % b)

\* a float that is the quotient of two naturals, in lowest terms
Float(num, den) ==
    [k |-> "float", v |-> <<num \div Gcd(num, den), den \div Gcd(num, den)>>]

\* the numbers of the cells that hold one
Numbers(cells) ==
    SelectSeq(cells, LAMBDA x : x.k = "int")

\* Series.mean(): the mean of the cells that hold a number, NaN without one
MeanOf(numbers) ==
    IF numbers = <<>> THEN NaN
    ELSE Float(SumInts([i \in 1..Len(numbers) |-> numbers[i].v]), Len(numbers))

SeriesMean(cells) == MeanOf(Numbers(cells))

\* df[df[name] == value]
WhereEq(table, name, value) ==
    Table(SelectSeq(table.v, LAMBDA row : row[name] = value))

----------------------------------------------------------------------------
(* get_basic_stats. *)

\* a slip: the mean is taken also when no call is left
AvgCallDurationUnguarded(calls_df) ==
    SeriesMean(Column(calls_df, "duration_seconds"))

\* lines 33-35: the mean duration of the calls, 0 without a call
AvgCallDuration(calls_df) ==
    IF Len(calls_df.v) > 0
    THEN SeriesMean(Column(calls_df, "duration_seconds"))
    ELSE Num(0)

\* lines 21-36, earliest and latest being the min and max of datetime
StatsDict(messages, calls_df, earliest, latest) ==
    Dict([total_messages |-> Num(Len(messages.v)),
          total_chats |-> Num(NUnique(Column(messages, "chat_id"))),
          date_range_start |-> earliest,
          date_range_end |-> latest,
          total_days |-> PlusOne(TimedeltaDays(latest, earliest)),
          total_text_length |-> Num(SumInts(Column(messages, "text_length"))),
          media_messages |-> Num(CountNotNa(Column(messages, "media_type"))),
          total_calls |-> Num(Len(calls_df.v)),
          avg_call_duration |-> AvgCallDuration(calls_df)])

\* get_basic_stats(messages_df)
GetBasicStats(messages) ==
    IF NoneOrEmpty(messages) THEN Dict(<<>>)
    ELSE StatsDict(messages,
                   WhereEq(messages, "action", Str("phone_call")),
                   SeriesMin(Column(messages, "datetime")),
                   SeriesMax(Column(messages, "datetime")))

----------------------------------------------------------------------------
(* get_chat_summary. *)

\* the strings of the model's chat names and type tags, in the order
\* Python compares strings
StrOrder ==
    <<"", "Alice", "Bob", "Club", "Misc", "News", "Saved Messages", "Team",
      "personal_chat", "private_group", "private_supergroup",
      "public_channel", "saved_messages", "unknown">>

Rank(str) == CHOOSE i \in 1..Len(StrOrder) : StrOrder[i] = str

\* a < b for two cells of one key column
CellLess(a, b) ==
    IF a.k = "int" THEN a.v < b.v ELSE Rank(a.v) < Rank(b.v)

\* a < b for two group keys (chat_id, chat_name, chat_type)
KeyLess(a, b) ==
    \/ CellLess(a[1], b[1])
    \/ a[1] = b[1] /\ CellLess(a[2], b[2])
    \/ a[1] = b[1] /\ a[2] = b[2] /\ CellLess(a[3], b[3])

KeyOf(row) == <<row.chat_id, row.chat_name, row.chat_type>>

\* groupby drops the rows with a null cell in a key column
HasKeys(row) ==
    ~IsNa(row.chat_id) /\ ~IsNa(row.chat_name) /\ ~IsNa(row.chat_type)

GroupKeys(table) ==
    {KeyOf(table.v[i]) : i \in {j \in 1..Len(table.v) : HasKeys(table.v[j])}}

\* the group keys in the order the grouping yields them: sorted
RECURSIVE SortedKeys(_)
SortedKeys(K) ==
    IF K = {} THEN <<>>
    ELSE LET least == CHOOSE a \in K : \A b \in K \ {a} : KeyLess(a, b)
         IN <<least>> \o SortedKeys(K \ {least})

\* the rows of one group
GroupRows(table, key) ==
    Table(SelectSeq(table.v, LAMBDA row : HasKeys(row) /\ KeyOf(row) = key))

\* the integer nearest to num / den, a tie going to the even one
RoundHalfEven(num, den) ==
    IF 2 * (num % den) < den THEN num \div den
    ELSE IF 2 * (num % den) > den THEN num \div den + 1
    ELSE IF (num \div den) % 2 = 0 THEN num \div den
    ELSE num \div den + 1

\* round(num / den, 2)
Round2(num, den) == Float(RoundHalfEven(num * 100, den), 100)

\* a slip: one day too many is counted
DaysActivePlusTwo(first_message, last_message) ==
    PlusOne(PlusOne(TimedeltaDays(last_message, first_message)))

\* lines 70-72
DaysActive(first_message, last_message) ==
    PlusOne(TimedeltaDays(last_message, first_message))

\* lines 73-76
MessagesPerDay(message_count, days_active) ==
    IF days_active = NaN THEN NaN
    ELSE Round2(message_count.v, days_active.v)

\* lines 70-76 for one row
WithRates(row, days_active) ==
    row @@ [days_active |-> days_active,
            messages_per_day |-> MessagesPerDay(row.message_count,
                                                days_active)]

\* lines 46-68 for one group: the aggregates, rounded, under their names
Aggregates(key, group, lengths) ==
    [chat_id |-> key[1], chat_name |-> key[2], chat_type |-> key[3],
     message_count |-> Num(CountNotNa(Column(group, "message_id"))),
     total_text_length |-> Num(SumInts(lengths)),
     avg_text_length |-> Round2(SumInts(lengths), Len(lengths)),
     unique_senders |-> Num(NUnique(Column(group, "from"))),
     first_message |-> SeriesMin(Column(group, "datetime")),
     last_message |-> SeriesMax(Column(group, "datetime")),
     media_count |-> Num(CountNotNa(Column(group, "media_type")))]

SummaryRowOf(row) ==
    WithRates(row, DaysActive(row.first_message, row.last_message))

GroupSummary(key, group) ==
    SummaryRowOf(Aggregates(key, group, Column(group, "text_length")))

\* lines 45-76: one row per group, in the order of the groups
ChatStats(table, keys) ==
    [g \in 1..Len(keys) |-> GroupSummary(keys[g], GroupRows(table, keys[g]))]

Orders(n) ==
    {p \in [1..n -> 1..n] : \A i, j \in 1..n : p[i] = p[j] => i = j}

\* line 78, sort_values("message_count", ascending=False): the sort is
\* pandas' default quicksort, which leaves the order of rows with equal
\* message_count to the build; every descending order is an outcome
SortValues(rows) ==
    {Table([i \in 1..Len(rows) |-> rows[p[i]]]) : p \in
        {q \in Orders(Len(rows)) :
            \A i \in 1..(Len(rows) - 1) :
                rows[q[i]].message_count.v >= rows[q[i + 1]].message_count.v}}

\* get_chat_summary(messages_df): the tables it can return
GetChatSummary(messages) ==
    IF NoneOrEmpty(messages) THEN {None}
    ELSE SortValues(ChatStats(messages, SortedKeys(GroupKeys(messages))))

----------------------------------------------------------------------------
(* get_time_period_filter. *)

Windows == {"7d", "30d", "90d", "1y"}

\* a slip: the window 30d is 3 days long
WindowDaysShortMonth(window) ==
    CASE window = "7d" -> 7
      [] window = "30d" -> 3
      [] window = "90d" -> 90
      [] window = "1y" -> 365

\* the days of timedelta(days=...) for the window
WindowDays(window) ==
    CASE window = "7d" -> 7
      [] window = "30d" -> 30
      [] window = "90d" -> 90
      [] window = "1y" -> 365

\* now - timedelta(days=days), in seconds from the epoch; NaT stays NaT
StartDate(now, days) ==
    IF now = NaT THEN NaT ELSE Num(EpochSeconds(now) - days * 86400)

\* a slip: a record at the start of the window is left out
After(cell, start_date) ==
    cell # NaT /\ start_date # NaT /\ EpochSeconds(cell) > start_date.v

\* cell >= start_date, false when either side is NaT
AtOrAfter(cell, start_date) ==
    cell # NaT /\ start_date # NaT /\ EpochSeconds(cell) >= start_date.v

\* line 47: df[df["datetime"] >= start_date]
FromStart(table, start_date) ==
    Table(SelectSeq(table.v, LAMBDA row : AtOrAfter(row.datetime, start_date)))

\* lines 34-47, now being df["datetime"].max()
FilterFrom(table, window, now) ==
    IF window \in Windows
    THEN FromStart(table, StartDate(now, WindowDays(window)))
    ELSE table

\* a slip: a window name that is not known selects nothing
GetTimePeriodFilterStrict(table, window) ==
    IF window = "all" THEN table
    ELSE IF table = None THEN Raised("TypeError")
    ELSE IF window \notin Windows THEN Table(<<>>)
    ELSE FilterFrom(table, window, SeriesMax(Column(table, "datetime")))

\* get_time_period_filter(df, period); None has no columns to read
GetTimePeriodFilter(table, window) ==
    IF window = "all" THEN table
    ELSE IF table = None THEN Raised("TypeError")
    ELSE FilterFrom(table, window, SeriesMax(Column(table, "datetime")))

----------------------------------------------------------------------------
(* create_activity_heatmap. *)

\* lines 62-70
WeekdayOrder ==
    <<"Monday", "Tuesday", "Wednesday", "Thursday", "Friday", "Saturday",
      "Sunday">>

\* the rows groupby(["weekday", "hour"]) keeps: both cells hold a value
Timed(table) ==
    SelectSeq(table.v, LAMBDA row : ~IsNa(row.weekday) /\ ~IsNa(row.hour))

RECURSIVE SortedInts(_)
SortedInts(S) ==
    IF S = {} THEN <<>>
    ELSE LET least == CHOOSE a \in S : \A b \in S : a <= b
         IN <<least>> \o SortedInts(S \ {least})

\* the columns of the pivot: the hours that occur, ascending
PivotHours(rows) == SortedInts({rows[i].hour.v : i \in 1..Len(rows)})

\* lines 53-55: the size of the group (weekday, hour)
GroupSize(rows, weekday, hour) ==
    Cardinality({i \in 1..Len(rows) :
                    rows[i].weekday = Str(weekday) /\ rows[i].hour = Num(hour)})

\* lines 58-71 for one weekday: the row of the pivot with its gaps filled
\* by 0, or the row of NaN that reindex adds for a weekday not in the pivot
HeatmapRow(rows, weekday, hours) ==
    IF \E i \in 1..Len(rows) : rows[i].weekday = Str(weekday)
    THEN [j \in 1..Len(hours) |-> Num(GroupSize(rows, weekday, hours[j]))]
    ELSE [j \in 1..Len(hours) |-> NaN]

\* lines 53-71: heatmap_data.values
HeatmapValues(rows, hours) ==
    [w \in 1..Len(WeekdayOrder) |-> HeatmapRow(rows, WeekdayOrder[w], hours)]

\* lines 73-84: the trace of the figure
Heatmap(rows) ==
    [k |-> "Heatmap",
     v |-> [z |-> HeatmapValues(rows, PivotHours(rows)),
            x |-> [h \in 1..24 |-> h - 1],
            y |-> WeekdayOrder]]

\* create_activity_heatmap(df); None has no groupby
CreateActivityHeatmap(table) ==
    IF table = None THEN Raised("AttributeError")
    ELSE Heatmap(Timed(table))

----------------------------------------------------------------------------
(* create_message_timeline. *)

\* the civil date of the day that is days after 1970-01-01, at midnight
CivilFromDays(days) ==
    LET z == days + 719468
        era == z \div 146097
        doe == z - era * 146097
        yoe == (doe - doe \div 1460 + doe \div 36524 - doe \div 146096) \div 365
        doy == doe - (365 * yoe + yoe \div 4 - yoe \div 100)
        mp == (5 * doy + 2) \div 153
        d == doy - (153 * mp + 2) \div 5 + 1
        m == IF mp < 10 THEN mp + 3 ELSE mp - 9
        y == yoe + era * 400 + (IF m <= 2 THEN 1 ELSE 0)
    IN Timestamp(y, m, d, 0, 0, 0)

\* the days from 1970-01-01 to the date of the timestamp
DayNumber(t) == DaysFromCivil(t.v.year, t.v.month, t.v.day)

\* .dt.floor("H")
FloorHour(t) == Timestamp(t.v.year, t.v.month, t.v.day, t.v.hour, 0, 0)

\* .dt.floor("D")
FloorDay(t) == Timestamp(t.v.year, t.v.month, t.v.day, 0, 0, 0)

\* a slip: the weeks begin on Sunday
WeekStartSunday(t) == CivilFromDays(DayNumber(t) - ((DayNumber(t) + 4) % 7))

\* .dt.to_period("W").dt.start_time: the Monday of the week, the periods
\* of "W" ending on Sunday
WeekStart(t) == CivilFromDays(DayNumber(t) - ((DayNumber(t) + 3) % 7))

\* .dt.to_period("M").dt.start_time
MonthStart(t) == Timestamp(t.v.year, t.v.month, 1, 0, 0, 0)

\* lines 107-121: the period of one datetime cell; NaT stays NaT
PeriodOf(cell, granularity) ==
    IF cell = NaT THEN NaT
    ELSE CASE granularity = "hour" -> FloorHour(cell)
           [] granularity = "day" -> FloorDay(cell)
           [] granularity = "week" -> WeekStart(cell)
           [] granularity = "month" -> MonthStart(cell)
           [] OTHER -> FloorDay(cell)

\* df["period"] = ...: the table with the column period set
WithPeriod(table, granularity) ==
    Table([i \in 1..Len(table.v) |->
             [period |-> PeriodOf(table.v[i].datetime, granularity)]
             @@ table.v[i]])

\* timestamps in ascending order
RECURSIVE SortedStamps(_)
SortedStamps(S) ==
    IF S = {} THEN <<>>
    ELSE <<EarliestOf(S)>> \o SortedStamps(S \ {EarliestOf(S)})

\* line 123: groupby("period").size().reset_index(name="message_count"),
\* one row per period in ascending order, rows without a period left out
PeriodSizes(cells, periods) ==
    Table([g \in 1..Len(periods) |->
             [period |-> periods[g],
              message_count |->
                  Num(Cardinality({i \in 1..Len(cells) :
                                      cells[i] = periods[g]}))]])

TimelineData(cells) == PeriodSizes(cells, SortedStamps(NotNa(cells)))

\* line 104-105: the rows of one chat, or all rows without a chat name
OfChat(table, chat_name) ==
    IF Truthy(chat_name) THEN WhereEq(table, "chat_name", chat_name)
    ELSE table

\* lines 107-123 on the table that df names after line 105
Bucketed(with_period) ==
    TimelineData(Column(with_period, "period"))

\* create_message_timeline(df, chat_name, granularity): the table handed to
\* the chart, and the table of the caller after the call; without a chat
\* name df is the caller's table and the column period is set on it
CreateMessageTimeline(table, chat_name, granularity) ==
    IF table = None
    THEN [data |-> Raised("TypeError"), df |-> table]
    ELSE [data |-> Bucketed(WithPeriod(OfChat(table, chat_name), granularity)),
          df |-> IF Truthy(chat_name) THEN table
                 ELSE WithPeriod(table, granularity)]

----------------------------------------------------------------------------
(* create_full_timeline. *)

\* lines 817-819: the days of the rows, rows without a timestamp left out
DaysOf(cells) == [i \in 1..Len(cells) |-> DayNumber(cells[i])]

RowDays(table) ==
    DaysOf(SelectSeq(Column(table, "datetime"), LAMBDA cell : ~IsNa(cell)))

\* a slip: the day of end_date is left out of the range
DateRangeOpen(first_day, last_day) ==
    [i \in 1..(IF last_day > first_day THEN last_day - first_day ELSE 0) |->
        first_day + i - 1]

\* line 822: pd.date_range(start, end, freq="D"), as day numbers
DateRange(first_day, last_day) ==
    [i \in 1..(IF last_day >= first_day THEN last_day - first_day + 1 ELSE 0)
        |-> first_day + i - 1]

\* lines 823-827: one row per day of the range with the count of the day,
\* 0 for a day without a row
MergedCounts(days, row_days) ==
    Table([i \in 1..Len(days) |->
             [date |-> CivilFromDays(days[i]),
              message_count |->
                  Num(Cardinality({j \in 1..Len(row_days) :
                                      row_days[j] = days[i]}))]])

\* lines 814-862 for bounds that are timestamps
FullTimeline(table, start_date, end_date) ==
    [k |-> "Figure",
     v |-> [data |-> MergedCounts(DateRange(DayNumber(start_date),
                                            DayNumber(end_date)),
                                  RowDays(table)),
            total_days |-> PlusOne(TimedeltaDays(end_date, start_date))]]

\* create_full_timeline(chat_df, start_date, end_date, chat_name); None has
\* no copy(), and date_range refuses NaT
CreateFullTimeline(table, start_date, end_date) ==
    IF table = None THEN Raised("AttributeError")
    ELSE IF start_date = NaT \/ end_date = NaT THEN Raised("ValueError")
    ELSE FullTimeline(table, start_date, end_date)

----------------------------------------------------------------------------
(* create_word_cloud. *)

\* the texts of the model, spelled out character by character
Spelled ==
    {<<"", <<>>>>,
     <<"a", <<"a">>>>,
     <<"hi", <<"h", "i">>>>,
     <<"hello", <<"h", "e", "l", "l", "o">>>>,
     <<"the", <<"t", "h", "e">>>>,
     <<"the cat", <<"t", "h", "e", " ", "c", "a", "t">>>>,
     <<"Cat, cat!", <<"C", "a", "t", ",", " ", "c", "a", "t", "!">>>>,
     <<"@#", <<"@", "#">>>>,
     <<"a\nhttp://t now",
       <<"a", "\n", "h", "t", "t", "p", ":", "/", "/", "t", " ",
         "n", "o", "w">>>>}

\* str(text): the characters of the text
Chars(str) == (CHOOSE p \in Spelled : p[1] = str)[2]

\* \s and \w on the characters of the model
IsSpace(c) == c \in {" ", "\n"}

IsWordChar(c) ==
    c \in {"a", "c", "e", "h", "i", "l", "n", "o", "p", "t", "w", "C", "_"}

\* str.lower() on one character
LowerChar(c) == IF c = "C" THEN "c" ELSE c

\* chars[i..] begins with prefix and a character that is no space follows
StartsUrl(chars, i, prefix) ==
    /\ i + Len(prefix) <= Len(chars)
    /\ SubSeq(chars, i, i + Len(prefix) - 1) = prefix
    /\ ~IsSpace(chars[i + Len(prefix)])

\* the first index from i on that holds a space, Len + 1 without one
RECURSIVE NextSpace(_, _)
NextSpace(chars, i) ==
    IF i > Len(chars) \/ IsSpace(chars[i]) THEN i ELSE NextSpace(chars, i + 1)

\* line 885: re.sub(r"http\S+|www\S+|https\S+", "", all_text)
RECURSIVE StripUrls(_, _)
StripUrls(chars, i) ==
    IF i > Len(chars) THEN <<>>
    ELSE IF StartsUrl(chars, i, <<"h", "t", "t", "p">>)
            \/ StartsUrl(chars, i, <<"w", "w", "w">>)
    THEN StripUrls(chars, NextSpace(chars, i))
    ELSE <<chars[i]>> \o StripUrls(chars, i + 1)

\* line 887: re.sub(r"\s+", " ", all_text)
RECURSIVE CollapseSpace(_, _)
CollapseSpace(chars, i) ==
    IF i > Len(chars) THEN <<>>
    ELSE IF IsSpace(chars[i])
    THEN (IF i > 1 /\ IsSpace(chars[i - 1]) THEN <<>> ELSE <<" ">>)
         \o CollapseSpace(chars, i + 1)
    ELSE <<chars[i]>> \o CollapseSpace(chars, i + 1)

\* line 889: re.sub(r"[^\w\s\-.,!?]", " ", all_text)
BlankSpecial(chars) ==
    [i \in 1..Len(chars) |->
        IF IsWordChar(chars[i]) \/ IsSpace(chars[i])
           \/ chars[i] \in {"-", ".", ",", "!", "?"}
        THEN chars[i] ELSE " "]

\* lines 885-889
CleanText(chars) == BlankSpecial(CollapseSpace(StripUrls(chars, 1), 1))

\* str.split(): the runs of characters that are no space
RECURSIVE Split(_, _, _)
Split(chars, i, word) ==
    IF i > Len(chars) THEN (IF word = <<>> THEN <<>> ELSE <<word>>)
    ELSE IF IsSpace(chars[i])
    THEN (IF word = <<>> THEN <<>> ELSE <<word>>) \o Split(chars, i + 1, <<>>)
    ELSE Split(chars, i + 1, Append(word, chars[i]))

\* str.lower()
Lower(chars) == [i \in 1..Len(chars) |-> LowerChar(chars[i])]

\* the stop words of lines 896-1088 that the texts of the model hold
StopWords == {<<"t", "h", "e">>, <<"a">>, <<"n", "o", "w">>}

\* the words WordCloud.generate finds: runs of word characters, lowered,
\* that are no stop word
RECURSIVE WordRuns(_, _, _)
WordRuns(chars, i, word) ==
    IF i > Len(chars) THEN (IF word = <<>> THEN <<>> ELSE <<word>>)
    ELSE IF ~IsWordChar(chars[i])
    THEN (IF word = <<>> THEN <<>> ELSE <<word>>)
         \o WordRuns(chars, i + 1, <<>>)
    ELSE WordRuns(chars, i + 1, Append(word, chars[i]))

CloudWords(chars) ==
    SelectSeq(WordRuns(chars, 1, <<>>),
              LAMBDA word : Lower(word) \notin StopWords)

\* " ".join(texts)
RECURSIVE JoinSpaced(_)
JoinSpaced(texts) ==
    IF texts = <<>> THEN <<>>
    ELSE IF Len(texts) = 1 THEN Chars(texts[1].v)
    ELSE Chars(texts[1].v) \o <<" ">> \o JoinSpaced(Tail(texts))

InfoNoText == "No text messages available for word cloud generation"
InfoNoSuitable == "No suitable text found for word cloud generation"
ErrWordCloud == "Error generating word cloud"

\* what the call shows: an info, an error, or the two metrics
Shown(kind, message, word_count, unique_words) ==
    [k |-> kind,
     v |-> [message |-> message, word_count |-> word_count,
            unique_words |-> unique_words]]

\* lines 1112-1119: the metrics over all_text.split()
WordMetrics(words) ==
    Shown("metrics", "", Len(words),
          Cardinality({Lower(words[i]) : i \in 1..Len(words)}))

\* lines 891-1119 on the cleaned text; generate raises without a word
CloudOf(all_text) ==
    IF Split(all_text, 1, <<>>) = <<>> THEN Shown("info", InfoNoSuitable, 0, 0)
    ELSE IF CloudWords(all_text) = <<>> THEN Shown("error", ErrWordCloud, 0, 0)
    ELSE WordMetrics(Split(all_text, 1, <<>>))

\* line 874: chat_df[chat_df["text_length"] > 0]["text"].dropna()
TextMessages(table) ==
    Column(Table(SelectSeq(table.v,
                           LAMBDA row : row.text_length > 0
                                        /\ ~IsNa(row.text))),
           "text")

\* lines 876-1119
CloudOfTexts(text_messages) ==
    IF text_messages = <<>> THEN Shown("info", InfoNoText, 0, 0)
    ELSE CloudOf(CleanText(JoinSpaced(text_messages)))

\* create_word_cloud(chat_df, chat_name); what None raises is caught at
\* line 1125
CreateWordCloud(table) ==
    IF table = None THEN Shown("error", ErrWordCloud, 0, 0)
    ELSE CloudOfTexts(TextMessages(table))

----------------------------------------------------------------------------
(* The record sets handed to the aggregating functions. *)

\* the date fields of the messages: a latest one, one 13 hours earlier on
\* the day before, the ones 7, 30, 90, 365 and 366 days earlier, one a
\* second before the 7 days, and the empty string, which becomes NaT
AggDateCells ==
    {Str("2024-03-10T12:00:00"), Str("2024-03-09T23:00:00"),
     Str("2024-03-03T12:00:00"), Str("2024-03-03T11:59:59"),
     Str("2024-02-09T12:00:00"), Str("2023-12-11T12:00:00"),
     Str("2023-03-11T12:00:00"), Str("2023-03-10T12:00:00"), Str("")}

\* the message entry with value under the key field
WithField(message, field, value) ==
    Dict([message.v EXCEPT ![field] = value])

\* a text message: no action, no duration
TextMessage(id, date) ==
    Lacking(FullMessage(id, date, Str("hello")),
            {"action", "duration_seconds", "actor", "actor_id"})

\* one personal chat whose messages carry these dates
TimeDocs ==
    {Export(<<PersonalChat(List([i \in 1..Len(ds) |->
                                    TextMessage(i, ds[i])]))>>) :
        ds \in SeqsUpTo(AggDateCells, MaxMsgs) \ {<<>>}}

\* private chats in the order an export lists them; the chat of a deleted
\* account has a null name, and one chat has a null id
AggHeads ==
    <<[type |-> Str("personal_chat"), id |-> Num(2), name |-> Str("Alice")],
      [type |-> Str("saved_messages"), id |-> Num(4), name |-> Absent],
      [type |-> Str("personal_chat"), id |-> Num(1), name |-> None],
      [type |-> Str("personal_chat"), id |-> None, name |-> Str("Bob")],
      [type |-> Str("personal_chat"), id |-> Num(3), name |-> Str("Bob")]>>

\* the message lists of the chats of a summary: 1..MaxMsgs text messages
SummaryLists ==
    {List([i \in 1..m |-> TextMessage(i, Str("2024-03-10T12:00:00"))]) :
        m \in 1..MaxMsgs}

\* the chats of the heads H, in the order of AggHeads
AggChatsAt(H, ms) ==
    [j \in 1..Cardinality(H) |->
        Chat(AggHeads[CHOOSE h \in H : Cardinality({g \in H : g < h}) = j - 1],
             ms[CHOOSE h \in H : Cardinality({g \in H : g < h}) = j - 1])]

\* exports of 1..MaxChats of these chats
SummaryDocs ==
    UNION {{Export(AggChatsAt(H, ms)) : ms \in [H -> SummaryLists]} :
              H \in SubsetsUpTo(1..Len(AggHeads), MaxChats) \ {{}}}

\* one personal chat whose messages have an id or a null id
IdDocs ==
    {Export(<<PersonalChat(List([i \in 1..Len(ids) |->
          WithField(TextMessage(i, Str("2024-03-10T12:00:00")),
                    "id", ids[i])]))>>) :
        ids \in SeqsUpTo({Num(7), None}, MaxMsgs) \ {<<>>}}

\* a call with its duration, a call without one, a text message
CallCells ==
    {FullMessage(1, Str("2024-03-10T12:00:00"), Str("")),
     WithField(FullMessage(1, Str("2024-03-10T12:00:00"), Str("")),
               "duration_seconds", Num(30)),
     Lacking(FullMessage(1, Str("2024-03-10T12:00:00"), Str("")),
             {"duration_seconds"}),
     TextMessage(1, Str("2024-03-10T12:00:00"))}

\* one personal chat of calls and text messages
CallDocs ==
    {Export(<<PersonalChat(List(ms))>>) :
        ms \in SeqsUpTo(CallCells, MaxMsgs) \ {<<>>}}

\* one personal chat with messages on the first and the last of five days
SpanDocs ==
    {Export(<<PersonalChat(List([i \in 1..Len(ds) |->
                                    TextMessage(i, ds[i])]))>>) :
        ds \in SeqsUpTo({Str("2024-03-06T09:15:00"),
                         Str("2024-03-10T12:00:00")}, MaxMsgs) \ {<<>>}}

\* the texts of the messages of a word cloud
WordTexts ==
    {Str("the cat"), Str("Cat, cat!"), Str("@#"), Str("a\nhttp://t now"),
     Str("the")}

\* one personal chat whose messages carry these texts
WordDocs ==
    {Export(<<PersonalChat(List([i \in 1..Len(ts) |->
          WithField(TextMessage(i, Str("2024-03-10T12:00:00")),
                    "text", ts[i])]))>>) :
        ts \in SeqsUpTo(WordTexts, MaxMsgs) \ {<<>>}}

\* two chats without an id, of one message each
SharedIdDocs ==
    {Export(<<Chat([type |-> Str("personal_chat"), id |-> Absent,
                    name |-> Str("Club")], m),
              Chat([type |-> Str("saved_messages"), id |-> Absent,
                    name |-> name], m)>>) :
        m \in {List(<<TextMessage(1, Str("2024-03-10T12:00:00"))>>)},
        name \in {Absent, Str("Club")}}

AggDocs ==
    TimeDocs \cup SummaryDocs \cup IdDocs \cup CallDocs \cup SpanDocs
    \cup WordDocs \cup SharedIdDocs

\* what extract_messages returns for these exports, the table without a
\* row that selecting one chat or one view can leave, and no table
RecordSets ==
    {None, Table(<<>>)}
    \cup {ExtractMessagesOutcome(doc, Unset).ret : doc \in AggDocs}

----------------------------------------------------------------------------
(* The calls on a record set: render_general_overview computes the stats, *)
(* the summary and the heatmap of its table in this order; the time       *)
(* window filter is a function of utils.py on its own.                    *)

Periods == {"all", "7d", "30d", "90d", "1y", "2w", ""}

InitAgg ==
    /\ LoaderIdle
    /\ SessionIdle
    /\ pc = "off"
    /\ text_field = Str("")
    /\ text_out = Unset
    /\ text_again = Unset
    /\ text_pc = "off"
    /\ agg_df \in RecordSets
    /\ stats = Unset
    /\ chat_summary = Unset
    /\ heatmap_data = Unset
    /\ period = ""
    /\ filtered = Unset
    /\ timeline = Unset
    /\ full_timeline = Unset
    /\ word_cloud = Unset
    /\ agg_pc = "input"

BasicStatsCall ==
    /\ agg_pc = "input"
    /\ stats' = GetBasicStats(agg_df)
    /\ agg_pc' = "stats"
    /\ UNCHANGED <<agg_df, chat_summary, heatmap_data, period, filtered>>
    /\ UNCHANGED <<timeline, full_timeline, word_cloud>>
    /\ UNCHANGED loaderVars
    /\ UNCHANGED textVars
    /\ UNCHANGED sessionVars

ChatSummaryCall ==
    /\ agg_pc = "stats"
    /\ chat_summary' \in GetChatSummary(agg_df)
    /\ agg_pc' = "summary"
    /\ UNCHANGED <<agg_df, stats, heatmap_data, period, filtered>>
    /\ UNCHANGED <<timeline, full_timeline, word_cloud>>
    /\ UNCHANGED loaderVars
    /\ UNCHANGED textVars
    /\ UNCHANGED sessionVars

ActivityHeatmapCall ==
    /\ agg_pc = "summary"
    /\ heatmap_data' = CreateActivityHeatmap(agg_df)
    /\ agg_pc' = "heatmap"
    /\ UNCHANGED <<agg_df, stats, chat_summary, period, filtered>>
    /\ UNCHANGED <<timeline, full_timeline, word_cloud>>
    /\ UNCHANGED loaderVars
    /\ UNCHANGED textVars
    /\ UNCHANGED sessionVars

TimePeriodFilterCall ==
    /\ agg_pc = "input"
    /\ \E window \in Periods :
         /\ period' = window
         /\ filtered' = GetTimePeriodFilter(agg_df, window)
    /\ agg_pc' = "filtered"
    /\ UNCHANGED <<agg_df, stats, chat_summary, heatmap_data>>
    /\ UNCHANGED <<timeline, full_timeline, word_cloud>>
    /\ UNCHANGED loaderVars
    /\ UNCHANGED textVars
    /\ UNCHANGED sessionVars

Granularities == {"hour", "day", "week", "month", "year"}

\* no chat name, and the name of a chat
ChatNames == {None, Str("Alice")}

MessageTimelineCall ==
    /\ agg_pc = "input"
    /\ \E chat_name \in ChatNames, granularity \in Granularities :
       \E o \in {CreateMessageTimeline(agg_df, chat_name, granularity)} :
         /\ timeline' = [chat_name |-> chat_name,
                         granularity |-> granularity, data |-> o.data]
         /\ agg_df' = o.df
    /\ agg_pc' = "timeline"
    /\ UNCHANGED <<stats, chat_summary, heatmap_data, period, filtered>>
    /\ UNCHANGED <<full_timeline, word_cloud>>
    /\ UNCHANGED loaderVars
    /\ UNCHANGED textVars
    /\ UNCHANGED sessionVars

\* the bounds handed to create_full_timeline
FullBounds ==
    {Timestamp(2024, 3, 6, 9, 15, 0), Timestamp(2024, 3, 10, 12, 0, 0)}

FullTimelineCall ==
    /\ agg_pc = "input"
    /\ \E start_date \in FullBounds, end_date \in FullBounds :
         full_timeline' =
             [start_date |-> start_date, end_date |-> end_date,
              fig |-> CreateFullTimeline(agg_df, start_date, end_date)]
    /\ agg_pc' = "full_timeline"
    /\ UNCHANGED <<agg_df, stats, chat_summary, heatmap_data, period>>
    /\ UNCHANGED <<filtered, timeline, word_cloud>>
    /\ UNCHANGED loaderVars
    /\ UNCHANGED textVars
    /\ UNCHANGED sessionVars

WordCloudCall ==
    /\ agg_pc = "input"
    /\ word_cloud' = CreateWordCloud(agg_df)
    /\ agg_pc' = "word_cloud"
    /\ UNCHANGED <<agg_df, stats, chat_summary, heatmap_data, period>>
    /\ UNCHANGED <<filtered, timeline, full_timeline>>
    /\ UNCHANGED loaderVars
    /\ UNCHANGED textVars
    /\ UNCHANGED sessionVars

NextAgg ==
    \/ BasicStatsCall
    \/ ChatSummaryCall
    \/ ActivityHeatmapCall
    \/ TimePeriodFilterCall
    \/ MessageTimelineCall
    \/ FullTimelineCall
    \/ WordCloudCall

SpecAgg == InitAgg /\ [][NextAgg]_vars

----------------------------------------------------------------------------
(* A session: the script runs of main one after another. *)

\* an export with a private and a group chat, one with a group chat only,
\* one with the saved messages only, one without a message
SessionExport ==
    Export(<<Chat(ChatHeads[2], List(<<FullMessage(7, Date1, Str("hi"))>>)),
             Chat(ChatHeads[1], List(<<FullMessage(8, Date2, Str("hi"))>>))>>)

GroupExport ==
    Export(<<Chat(ChatHeads[1], List(<<FullMessage(8, Date2, Str("hi"))>>))>>)

PrivateExport ==
    Export(<<Chat(ChatHeads[4], List(<<FullMessage(9, Date1, Str("hi"))>>))>>)

EmptyExport == Export(<<Chat(ChatHeads[2], List(<<>>))>>)

\* the uploads of a session, each under its own id: an export, the same
\* export uploaded once more, two other exports, an export without a
\* message, a file that is no JSON and one that is no text
SessionUploads ==
    {UploadedFile(1, Upload(TRUE, TRUE, SessionExport)),
     UploadedFile(2, Upload(TRUE, TRUE, SessionExport)),
     UploadedFile(3, Upload(TRUE, TRUE, GroupExport)),
     UploadedFile(4, Upload(TRUE, TRUE, EmptyExport)),
     UploadedFile(5, Upload(TRUE, FALSE, None)),
     UploadedFile(6, Upload(FALSE, FALSE, None)),
     UploadedFile(7, Upload(TRUE, TRUE, PrivateExport))}

\* a script run of the session: the user chose a file, removed it or
\* touched a widget; the run that st.rerun() asked for has the file of
\* the run before
SessionRun ==
    /\ pc \in {"new", "run"}
    /\ runs < MaxRuns
    /\ \E uploaded \in SessionUploads \cup {None} :
         /\ shown.rerun => uploaded = uploaded_file
         /\ ScriptRun(uploaded)

NextSession == SessionRun

SpecSession == Init /\ [][NextSession]_vars

----------------------------------------------------------------------------
(* What the claims say of a document, read off the document itself. *)

\* the document is an export: chats.list is a list of chats, each chat a
\* dict whose messages, when present, are a list of dicts
WellShaped(raw) ==
    /\ raw.k = "dict"
    /\ raw.v.chats.k = "dict"
    /\ raw.v.chats.v.list.k = "list"
    /\ \A c \in 1..Len(raw.v.chats.v.list.v) :
         LET chat == raw.v.chats.v.list.v[c] IN
           /\ chat.k = "dict"
           /\ chat.v.messages.k \in {"list", "absent"}
           /\ chat.v.messages.k = "list" =>
                \A i \in 1..Len(chat.v.messages.v) :
                    chat.v.messages.v[i].k = "dict"

DocChats(raw) == raw.v.chats.v.list.v

ChatMessages(chat) ==
    IF chat.v.messages = Absent THEN <<>> ELSE chat.v.messages.v

\* the messages of the chats, chat after chat
RECURSIVE Flatten(_)
Flatten(chats) ==
    IF chats = <<>> THEN <<>>
    ELSE ChatMessages(Head(chats)) \o Flatten(Tail(chats))

TaggedPrivate(chat) ==
    chat.v.type \in {Str("personal_chat"), Str("saved_messages")}

TaggedGroup(chat) ==
    chat.v.type \in {Str("private_group"), Str("private_supergroup")}

\* the document has no chats, or every chat's message list is empty
NoMessages(raw) ==
    /\ raw.k = "dict"
    /\ \/ raw.v.chats = Absent
       \/ /\ raw.v.chats.k = "dict"
          /\ raw.v.chats.v.list = Absent
       \/ /\ WellShaped(raw)
          /\ Flatten(DocChats(raw)) = <<>>

\* the date field holds a timestamp string
WellFormedDate(message) == message.v.date \in {Date1, Date2}

----------------------------------------------------------------------------
(* C1..C6, C10: the loader. *)

\* C1: extract_messages yields one record per message of every chat of
\* chats.list, whatever the chat's type tag: the records are as many as the
\* messages of all chats together.
C1_OneRecordPerMessage ==
    (pc = "extracted" /\ extract_ret.k = "df" /\ WellShaped(raw_data))
        => Len(extract_ret.v) = Len(Flatten(DocChats(raw_data)))

\* C2: after load and split, an export holding a private_group or
\* private_supergroup chat with at least one message gives the group view a
\* non-empty table.
C2_GroupChatsReachGroupView ==
    (/\ pc = "run"
     /\ extract_ret.k = "df"
     /\ WellShaped(raw_data)
     /\ \E c \in 1..Len(DocChats(raw_data)) :
            /\ TaggedGroup(DocChats(raw_data)[c])
            /\ ChatMessages(DocChats(raw_data)[c]) # <<>>)
        => (group_messages.k = "df" /\ group_messages.v # <<>>)

\* C3: when the document has no chats, or every chat's message list is
\* empty, extract_messages returns None and no table, empty or not.
C3_EmptyExportFails ==
    (pc = "extracted" /\ NoMessages(raw_data)) => extract_ret = None

\* C3, its case: chats are present, all of them empty, and the call failed
\* with the "no messages" error.
C3_Witness ==
    /\ pc = "extracted"
    /\ WellShaped(raw_data)
    /\ Len(DocChats(raw_data)) = MaxChats
    /\ NoMessages(raw_data)
    /\ extract_ret = None
    /\ st_errors = <<ErrNoMessages>>

\* C4: extract_messages never returns a table in which a record has a null
\* timestamp: a date that is no timestamp string, the empty string of a
\* missing date included, fails the batch.
C4_NoNullTimestamp ==
    (pc = "extracted" /\ extract_ret.k = "df")
        => \A i \in 1..Len(extract_ret.v) :
               extract_ret.v[i].datetime.k = "Timestamp"

\* C5: every failure carries a tag: a failed load shows one parse error and
\* leaves no data, a failed extraction after a successful load shows exactly
\* one error, the parse error or the empty-result error, and returns None.
C5_FailuresAreTagged ==
    /\ (pc = "loaded" /\ load_ret = Bool(FALSE))
           => (/\ Len(st_errors) = 1
               /\ st_errors[1] \in {ErrReadingJson, ErrProcessing}
               /\ raw_data = None)
    /\ (pc = "extracted" /\ load_ret = Bool(TRUE) /\ extract_ret.k # "df")
           => (/\ extract_ret = None
               /\ Len(st_errors) = 1
               /\ st_errors[1] \in {ErrExtracting, ErrNoMessages})

\* the column a message field is copied to
ColumnOf(f) == IF f = "id" THEN "message_id" ELSE f

\* the defaults as the claim states them (it names none for date and type)
ClaimedDefault(f) ==
    CASE f \in {"text", "from", "from_id"} -> Str("")
      [] f \in {"id", "date_unixtime"} -> Num(0)
      [] OTHER -> None

ClaimedFields == MsgFields \ {"date", "type"}

\* the defaults of the amended claim
AmendedDefault(f) ==
    CASE f = "from" -> Str("Unknown")
      [] f = "type" -> Str("message")
      [] f \in {"text", "from_id", "date"} -> Str("")
      [] f \in {"id", "date_unixtime"} -> Num(0)
      [] OTHER -> None

\* C6 as stated: every message entry yields one record, and a field the
\* entry lacks holds the default: "" for text, sender name and sender id,
\* 0 for message id and epoch seconds, None for the other fields named.
C6_ClaimedDefaults ==
    (/\ pc = "extracted"
     /\ extract_ret.k = "df"
     /\ WellShaped(raw_data)
     /\ \A c \in 1..Len(DocChats(raw_data)) : TaggedPrivate(DocChats(raw_data)[c]))
        => LET ms == Flatten(DocChats(raw_data)) IN
             /\ Len(extract_ret.v) = Len(ms)
             /\ \A i \in 1..Len(ms) : \A f \in ClaimedFields :
                    ms[i].v[f] = Absent
                        => extract_ret.v[i][ColumnOf(f)] = ClaimedDefault(f)

\* every field the entry holds has a value the loader accepts
MissingOnly(message) ==
    /\ message.v.text.k \in {"str", "absent"}
    /\ message.v.date \in {Date1, Date2, Absent}

\* C6, amended: whether a message entry yields a record is decided by its
\* chat's type tag alone, never by a field it lacks (a batch whose entries
\* only lack fields does not fail), and in its record a missing field holds
\* "Unknown" for the sender name, "message" for the type, "" for text,
\* sender id and date, 0 for message id and epoch seconds and None for the
\* rest; the text length of a missing text is 0.
C6_DefaultsForMissingFields ==
    (pc = "extracted" /\ load_ret = Bool(TRUE) /\ WellShaped(raw_data))
        => LET ms == Flatten(SelectSeq(DocChats(raw_data), TaggedPrivate)) IN
             /\ (ms # <<>> /\ \A i \in 1..Len(ms) : MissingOnly(ms[i]))
                    => extract_ret.k = "df"
             /\ extract_ret.k = "df" =>
                  /\ Len(extract_ret.v) = Len(ms)
                  /\ \A i \in 1..Len(ms) : \A f \in MsgFields :
                         ms[i].v[f] = Absent
                             => extract_ret.v[i][ColumnOf(f)] = AmendedDefault(f)
                  /\ \A i \in 1..Len(ms) :
                         ms[i].v.text = Absent
                             => extract_ret.v[i].text_length = 0

\* C6, its case: the one message of the export lacks every field and its
\* record carries the defaults.
C6_Witness ==
    /\ pc = "extracted"
    /\ extract_ret.k = "df"
    /\ Len(extract_ret.v) = 1
    /\ \A f \in MsgFields : DocChats(raw_data)[1].v.messages.v[1].v[f] = Absent
    /\ extract_ret.v[1].from = Str("Unknown")
    /\ extract_ret.v[1].width = None

\* C10: whatever the text field of the messages holds, the batch does not
\* fail because of it, each record's text is a string and text_length is the
\* number of its characters.
C10_TextIsStringWithLength ==
    (/\ pc = "extracted"
     /\ load_ret = Bool(TRUE)
     /\ WellShaped(raw_data)
     /\ Flatten(DocChats(raw_data)) # <<>>
     /\ \A c \in 1..Len(DocChats(raw_data)) : TaggedPrivate(DocChats(raw_data)[c])
     /\ \A i \in 1..Len(Flatten(DocChats(raw_data))) :
            WellFormedDate(Flatten(DocChats(raw_data))[i]))
        => /\ extract_ret.k = "df"
           /\ \A i \in 1..Len(extract_ret.v) :
                  /\ extract_ret.v[i].text.k = "str"
                  /\ extract_ret.v[i].text_length = Len(extract_ret.v[i].text.v)

\* what a chat entry holds under key, or the default when it lacks the key
HeadField(chat, key, default) ==
    IF chat.v[key] = Absent THEN default ELSE chat.v[key]

\* for every message of a chat, the id, name and type of that chat
HeadsOf(chat) ==
    [i \in 1..Len(ChatMessages(chat)) |->
        <<HeadField(chat, "id", Num(0)),
          HeadField(chat, "name", Str("Saved Messages")),
          HeadField(chat, "type", Str("unknown"))>>]

\* the same for the messages of the chats whose messages became records
RECURSIVE HeadsOfRecords(_)
HeadsOfRecords(chats) ==
    IF chats = <<>> THEN <<>>
    ELSE (IF TaggedPrivate(Head(chats)) THEN HeadsOf(Head(chats)) ELSE <<>>)
         \o HeadsOfRecords(Tail(chats))

\* C11: in a returned record set every record carries the chat id, chat
\* name and chat type of the chat entry its message was listed in, 0,
\* "Saved Messages" and "unknown" standing in for what the chat lacks.
C11_RecordsCarryTheirChat ==
    (/\ pc \in {"extracted", "run"}
     /\ extract_ret.k = "df"
     /\ WellShaped(raw_data))
        => [i \in 1..Len(extract_ret.v) |->
               <<extract_ret.v[i].chat_id, extract_ret.v[i].chat_name,
                 extract_ret.v[i].chat_type>>]
           = HeadsOfRecords(DocChats(raw_data))

\* C11, its case: the message of a chat without id and name became a
\* record with chat id 0 and chat name "Saved Messages".
C11_Witness ==
    /\ pc = "extracted"
    /\ extract_ret.k = "df"
    /\ Len(extract_ret.v) = 1
    /\ DocChats(raw_data)[1].v.id = Absent
    /\ DocChats(raw_data)[1].v.name = Absent
    /\ extract_ret.v[1].chat_id = Num(0)
    /\ extract_ret.v[1].chat_name = Str("Saved Messages")
    /\ extract_ret.v[1].chat_type = Str("saved_messages")

----------------------------------------------------------------------------
(* C12..C20: the aggregating functions. *)

\* the record set is a table with at least one row
NonEmpty(table) == table.k = "df" /\ table.v # <<>>

\* C12: for a non-empty record set of the loader, also one with a null
\* chat id, chat name or message id, the message_count of the rows of
\* get_chat_summary add up to total_messages of get_basic_stats.
C12_CountsAddUp ==
    (agg_pc \in {"summary", "heatmap"} /\ NonEmpty(agg_df))
        => SumInts([i \in 1..Len(chat_summary.v) |->
                       chat_summary.v[i].message_count.v])
           = stats.v.total_messages.v

\* C13: with the window "all", and with any window name other than 7d,
\* 30d, 90d and 1y, get_time_period_filter returns the record set it was
\* given: the same rows in the same order.
C13_AllAndUnknownAreIdentity ==
    (agg_pc = "filtered" /\ agg_df.k = "df" /\ period \notin Windows)
        => filtered = agg_df

\* C13, its case: the unknown window "2w" returned a table of two rows
\* unchanged, one of them more than a year older than the other.
C13_Witness ==
    /\ agg_pc = "filtered"
    /\ period = "2w"
    /\ agg_df.k = "df"
    /\ Len(agg_df.v) = 2
    /\ agg_df.v[1].datetime = Timestamp(2023, 3, 10, 12, 0, 0)
    /\ agg_df.v[2].datetime = Timestamp(2024, 3, 10, 12, 0, 0)
    /\ filtered = agg_df

\* the days the claim gives a window
ClaimedDays(window) ==
    CASE window = "7d" -> 7
      [] window = "30d" -> 30
      [] window = "90d" -> 90
      [] window = "1y" -> 365

\* the rows with a timestamp
Stamped(rows) == SelectSeq(rows, LAMBDA row : row.datetime.k = "Timestamp")

\* the seconds of the latest timestamp of the rows
LatestSeconds(rows) ==
    CHOOSE m \in {EpochSeconds(rows[i].datetime) : i \in 1..Len(rows)} :
        \A i \in 1..Len(rows) : EpochSeconds(rows[i].datetime) <= m

\* the rows at or after the latest timestamp minus days, in input order
WithinDays(rows, days) ==
    SelectSeq(Stamped(rows),
              LAMBDA row : EpochSeconds(row.datetime)
                           >= LatestSeconds(Stamped(rows)) - days * 86400)

\* C14: for the windows 7d, 30d, 90d and 1y (7, 30, 90, 365 days)
\* get_time_period_filter returns exactly the records whose timestamp is at
\* or after the latest timestamp of the input minus the window, in input
\* order.
C14_WindowKeepsRecentRecords ==
    (agg_pc = "filtered" /\ agg_df.k = "df" /\ period \in Windows)
        => /\ filtered.k = "df"
           /\ filtered.v = WithinDays(agg_df.v, ClaimedDays(period))

\* C14, its case: of a record one second more than 7 days before the
\* latest and the latest, the window 7d kept the latest only.
C14_Witness ==
    /\ agg_pc = "filtered"
    /\ period = "7d"
    /\ agg_df.k = "df"
    /\ Len(agg_df.v) = 2
    /\ agg_df.v[1].datetime = Timestamp(2024, 3, 3, 11, 59, 59)
    /\ agg_df.v[2].datetime = Timestamp(2024, 3, 10, 12, 0, 0)
    /\ filtered = Table(<<agg_df.v[2]>>)

\* the records with this weekday and hour
RecordsAt(rows, weekday, hour) ==
    Cardinality({i \in 1..Len(rows) :
                    rows[i].weekday = Str(weekday) /\ rows[i].hour = Num(hour)})

\* C15: for a non-empty record set the matrix of create_activity_heatmap has
\* 7 rows, Monday to Sunday, and 24 columns, hours 0 to 23, and the cell of
\* a weekday and an hour is the number of records with that weekday and
\* hour, 0 when there is none.
C15_HeatmapIsFull7x24 ==
    (agg_pc = "heatmap" /\ NonEmpty(agg_df))
        => /\ heatmap_data.k = "Heatmap"
           /\ Len(heatmap_data.v.z) = 7
           /\ \A w \in 1..7 :
                /\ Len(heatmap_data.v.z[w]) = 24
                /\ \A h \in 0..23 :
                     heatmap_data.v.z[w][h + 1]
                         = Num(RecordsAt(agg_df.v, WeekdayNames[w], h))

\* the calendar days from the date of one timestamp to the date of another
CalendarDays(earlier, later) ==
    DaysFromCivil(later.v.year, later.v.month, later.v.day)
    - DaysFromCivil(earlier.v.year, earlier.v.month, earlier.v.day)

\* the record set has a row with a timestamp
HasTimestamp(table) == Stamped(table.v) # <<>>

\* C16: total_days of get_basic_stats is the date of the latest timestamp
\* minus the date of the earliest timestamp plus 1, also when the two are
\* less than 24 hours apart on different calendar dates.
C16_TotalDaysIsCalendarSpan ==
    (/\ agg_pc \in {"stats", "summary", "heatmap"}
     /\ NonEmpty(agg_df)
     /\ HasTimestamp(agg_df))
        => stats.v.total_days
               = Num(CalendarDays(stats.v.date_range_start,
                                  stats.v.date_range_end) + 1)

\* no record is a call
NoCalls(table) ==
    \A i \in 1..Len(table.v) : table.v[i].action # Str("phone_call")

\* C17: for a non-empty record set without a phone_call record,
\* get_basic_stats returns its dict with total_calls 0 and
\* avg_call_duration 0, no error and no NaN.
C17_NoCallsGiveZero ==
    (/\ agg_pc \in {"stats", "summary", "heatmap"}
     /\ NonEmpty(agg_df)
     /\ NoCalls(agg_df))
        => /\ stats.k = "dict"
           /\ stats.v.total_calls = Num(0)
           /\ stats.v.avg_call_duration = Num(0)

\* C17, its case: the stats of two text messages.
C17_Witness ==
    /\ agg_pc = "stats"
    /\ NonEmpty(agg_df)
    /\ Len(agg_df.v) = 2
    /\ NoCalls(agg_df)
    /\ stats.v.total_messages = Num(2)
    /\ stats.v.total_calls = Num(0)
    /\ stats.v.avg_call_duration = Num(0)

\* the float has at most 2 decimals and is the nearest such to num / den
IsRounded2(float, num, den) ==
    /\ float.k = "float"
    /\ 100 % float.v[2] = 0
    /\ LET diff == float.v[1] * den - num * float.v[2]
       IN 200 * (IF diff < 0 THEN -diff ELSE diff) <= float.v[2] * den

\* C18: in every row of get_chat_summary whose chat has a timestamp,
\* days_active is the whole days from the first to the last message of the
\* chat plus 1, and messages_per_day is message_count / days_active rounded
\* to 2 decimals.
C18_DaysActiveAndRate ==
    (agg_pc \in {"summary", "heatmap"} /\ NonEmpty(agg_df))
        => \A i \in 1..Len(chat_summary.v) :
             LET row == chat_summary.v[i] IN
               row.first_message # NaT
                 => /\ row.days_active
                         = Num((EpochSeconds(row.last_message)
                                - EpochSeconds(row.first_message)) \div 86400
                               + 1)
                    /\ IsRounded2(row.messages_per_day, row.message_count.v,
                                  row.days_active.v)

\* C18, its case: 2 messages 30 days apart: 31 days active, 0.06 a day.
C18_Witness ==
    /\ agg_pc = "summary"
    /\ chat_summary.k = "df"
    /\ Len(chat_summary.v) = 1
    /\ chat_summary.v[1].message_count = Num(2)
    /\ chat_summary.v[1].first_message = Timestamp(2024, 2, 9, 12, 0, 0)
    /\ chat_summary.v[1].last_message = Timestamp(2024, 3, 10, 12, 0, 0)
    /\ chat_summary.v[1].days_active = Num(31)
    /\ chat_summary.v[1].messages_per_day = Float(6, 100)

\* C19: the rows of get_chat_summary are in descending order of
\* message_count, and rows of equal message_count are in the order the
\* grouping yields their groups.
C19_StableDescending ==
    (agg_pc \in {"summary", "heatmap"} /\ NonEmpty(agg_df))
        => \A i, j \in 1..Len(chat_summary.v) :
             i < j =>
               \/ chat_summary.v[i].message_count.v
                      > chat_summary.v[j].message_count.v
               \/ /\ chat_summary.v[i].message_count
                         = chat_summary.v[j].message_count
                  /\ KeyLess(KeyOf(chat_summary.v[i]), KeyOf(chat_summary.v[j]))

\* the record set is empty or null
EmptyOrNull(table) == table = None \/ table = Table(<<>>)

\* C20: on an empty or null record set no aggregating function raises:
\* get_basic_stats, get_chat_summary, create_activity_heatmap and
\* get_time_period_filter with each window name return a value.
C20_EmptyOrNullNeverRaises ==
    EmptyOrNull(agg_df)
        => /\ stats.k # "raise"
           /\ chat_summary.k # "raise"
           /\ heatmap_data.k # "raise"
           /\ filtered.k # "raise"

\* C21: no aggregating function changes the record set it is given: over
\* every call the record set keeps its rows and its columns.
C21_RecordSetUnchanged == [][agg_df' = agg_df]_vars

\* the timestamp is a midnight
IsMidnight(p) == p.v.hour = 0 /\ p.v.minute = 0 /\ p.v.second = 0

\* p is the start of the period of this granularity that holds t;
\* 1970-01-01, day 0, was a Thursday, so day 4 was a Monday
StartsPeriodOf(p, t, granularity) ==
    /\ p.k = "Timestamp"
    /\ EpochSeconds(p) <= EpochSeconds(t)
    /\ CASE granularity = "hour" ->
               /\ p.v.minute = 0 /\ p.v.second = 0
               /\ EpochSeconds(t) - EpochSeconds(p) < 3600
         [] granularity = "day" ->
               /\ IsMidnight(p)
               /\ EpochSeconds(t) - EpochSeconds(p) < 86400
         [] granularity = "week" ->
               /\ IsMidnight(p)
               /\ (EpochSeconds(p) \div 86400) % 7 = 4
               /\ EpochSeconds(t) - EpochSeconds(p) < 7 * 86400
         [] granularity = "month" ->
               /\ IsMidnight(p)
               /\ p.v.day = 1
               /\ p.v.month = t.v.month
               /\ p.v.year = t.v.year
         [] OTHER -> FALSE

\* the records the call bucketed: the rows with a timestamp, of the chat
\* when a chat name was given
BucketedRecords(rows, chat_name) ==
    SelectSeq(Stamped(rows),
              LAMBDA row : chat_name = None \/ row.chat_name = chat_name)

\* C22: the table of create_message_timeline has one row per period that
\* holds a record, in ascending order of period, each period being the
\* hour, the day, the week from its Monday or the month from its 1st that
\* holds the record; the count of a row is the number of records of its
\* period, and the counts add up to the number of records bucketed.
C22_TimelineBucketsByPeriod ==
    (/\ agg_pc = "timeline"
     /\ agg_df.k = "df"
     /\ timeline.granularity \in {"hour", "day", "week", "month"})
        => LET rows == BucketedRecords(agg_df.v, timeline.chat_name)
               data == timeline.data.v
           IN /\ timeline.data.k = "df"
              /\ \A i, j \in 1..Len(data) :
                   i < j => EpochSeconds(data[i].period)
                                < EpochSeconds(data[j].period)
              /\ \A r \in 1..Len(rows) :
                   \E i \in 1..Len(data) :
                      StartsPeriodOf(data[i].period, rows[r].datetime,
                                     timeline.granularity)
              /\ \A i \in 1..Len(data) :
                   /\ data[i].message_count.v >= 1
                   /\ data[i].message_count
                         = Num(Cardinality(
                             {r \in 1..Len(rows) :
                                 StartsPeriodOf(data[i].period,
                                                rows[r].datetime,
                                                timeline.granularity)}))
              /\ SumInts([i \in 1..Len(data) |-> data[i].message_count.v])
                   = Len(rows)

\* C22, its case: by week, a record of Sunday 2024-03-10 and one of Sunday
\* 2024-03-03 fall in the weeks of Monday 2024-02-26 and Monday 2024-03-04.
C22_Witness ==
    /\ agg_pc = "timeline"
    /\ timeline.granularity = "week"
    /\ agg_df.k = "df"
    /\ Len(agg_df.v) = 2
    /\ agg_df.v[1].datetime = Timestamp(2024, 3, 10, 12, 0, 0)
    /\ agg_df.v[2].datetime = Timestamp(2024, 3, 3, 12, 0, 0)
    /\ timeline.data
         = Table(<<[period |-> Timestamp(2024, 2, 26, 0, 0, 0),
                    message_count |-> Num(1)],
                   [period |-> Timestamp(2024, 3, 4, 0, 0, 0),
                    message_count |-> Num(1)]>>)

\* C23: for bounds start <= end the table of create_full_timeline has one
\* row for every calendar day from the date of start to the date of end, in
\* ascending order without a gap or a duplicate, and the count of a day
\* is the number of records of that day, 0 when there is none.
C23_FullTimelineFillsEveryDay ==
    (/\ agg_pc = "full_timeline"
     /\ agg_df.k = "df"
     /\ EpochSeconds(full_timeline.start_date)
           <= EpochSeconds(full_timeline.end_date))
        => LET data == full_timeline.fig.v.data.v
               first == EpochSeconds(full_timeline.start_date) \div 86400
               last == EpochSeconds(full_timeline.end_date) \div 86400
               rows == Stamped(agg_df.v)
           IN /\ full_timeline.fig.k = "Figure"
              /\ Len(data) = last - first + 1
              /\ \A i \in 1..Len(data) :
                   /\ IsMidnight(data[i].date)
                   /\ EpochSeconds(data[i].date) = (first + i - 1) * 86400
                   /\ data[i].message_count
                         = Num(Cardinality(
                             {r \in 1..Len(rows) :
                                 EpochSeconds(rows[r].datetime) \div 86400
                                     = first + i - 1}))

\* C23, its case: records on 2024-03-06 and 2024-03-10 only, bounds from
\* the one to the other: 5 rows, the three days between at 0.
C23_Witness ==
    /\ agg_pc = "full_timeline"
    /\ agg_df.k = "df"
    /\ Len(agg_df.v) = 2
    /\ full_timeline.start_date = Timestamp(2024, 3, 6, 9, 15, 0)
    /\ full_timeline.end_date = Timestamp(2024, 3, 10, 12, 0, 0)
    /\ full_timeline.fig.k = "Figure"
    /\ Len(full_timeline.fig.v.data.v) = 5
    /\ [i \in 1..5 |-> full_timeline.fig.v.data.v[i].message_count.v]
         = <<1, 0, 0, 0, 1>>

\* the tokens of the cleaned text of the record set that are no stop word
SurvivingTokens(table) ==
    SelectSeq(Split(CleanText(JoinSpaced(TextMessages(table))), 1, <<>>),
              LAMBDA word : Lower(word) \notin StopWords)

\* C24: the word counts create_word_cloud reports are counts over the
\* tokens of the cleaned text that are no stop word: the total is their
\* number, the unique count the number of different ones, and a stop word
\* adds to neither.
C24_CountsOverSurvivingTokens ==
    (agg_pc = "word_cloud" /\ word_cloud.k = "metrics")
        => LET tokens == SurvivingTokens(agg_df)
           IN /\ word_cloud.v.word_count = Len(tokens)
              /\ word_cloud.v.unique_words
                   = Cardinality({Lower(tokens[i]) : i \in 1..Len(tokens)})

\* the window names from the narrowest to the widest
WindowOrder == <<"7d", "30d", "90d", "1y", "all">>

\* every row of the one table is a row of the other
RowsWithin(part, whole) ==
    \A i \in 1..Len(part.v) : \E j \in 1..Len(whole.v) :
        whole.v[j] = part.v[i]

\* every row of the record set has a timestamp
AllStamped(table) == table.k = "df" /\ Stamped(table.v) = table.v

\* C28: on a record set with valid timestamps the result of
\* get_time_period_filter for a window lies within the result for every
\* wider window, 7d within 30d within 90d within 1y within all; it holds
\* every record with the latest timestamp, so it is not empty unless the
\* record set is; and filtering it again with the same window gives it
\* back unchanged.
C28_WindowsNestAndRepeat ==
    (/\ agg_pc = "filtered"
     /\ AllStamped(agg_df)
     /\ \E n \in 1..5 : WindowOrder[n] = period)
        => /\ filtered.k = "df"
           /\ \A n, w \in 1..5 :
                (WindowOrder[n] = period /\ n <= w)
                    => RowsWithin(filtered,
                                  GetTimePeriodFilter(agg_df, WindowOrder[w]))
           /\ \A i \in 1..Len(agg_df.v) :
                EpochSeconds(agg_df.v[i].datetime)
                        = LatestSeconds(agg_df.v)
                    => \E j \in 1..Len(filtered.v) :
                          filtered.v[j] = agg_df.v[i]
           /\ agg_df.v # <<>> => filtered.v # <<>>
           /\ GetTimePeriodFilter(filtered, period) = filtered

\* C28, its case: of a record 7 days before the latest and the latest,
\* the window 7d kept both, as every wider window does.
C28_Witness ==
    /\ agg_pc = "filtered"
    /\ period = "7d"
    /\ AllStamped(agg_df)
    /\ Len(agg_df.v) = 2
    /\ agg_df.v[1].datetime = Timestamp(2024, 3, 3, 12, 0, 0)
    /\ agg_df.v[2].datetime = Timestamp(2024, 3, 10, 12, 0, 0)
    /\ filtered = agg_df
    /\ GetTimePeriodFilter(agg_df, "30d") = agg_df
    /\ GetTimePeriodFilter(filtered, "7d") = filtered

\* C29: for a non-empty record set get_chat_summary has as many rows as
\* total_chats of get_basic_stats counts chats.
C29_SummaryRowsAreTotalChats ==
    (agg_pc \in {"summary", "heatmap"} /\ NonEmpty(agg_df))
        => /\ chat_summary.k = "df"
           /\ stats.k = "dict"
           /\ Num(Len(chat_summary.v)) = stats.v.total_chats

----------------------------------------------------------------------------
(* C26, C27: what a failed call leaves on the loader. *)

\* C26: a load_from_file that returns False leaves raw_data as it was, and
\* the extract_messages that follows a failed load returns no records: not
\* those of an archive loaded earlier on the same loader either.
C26_FailedLoadGivesNoRecords ==
    (pc = "extracted" /\ load_ret = Bool(FALSE)) => extract_ret = None

\* C27: when extract_messages returns None the attribute messages_df is
\* what it was before the call: on a loader that never returned a table it
\* is still unassigned, and no table of the failed document is on it.
C27_NoneLeavesNoTable ==
    (pc = "extracted" /\ extract_ret = None) => messages_df = Unset

----------------------------------------------------------------------------
(* C25, C30: the script runs of main. *)

\* the load of the run returned a record set that is not empty
LoadGaveRecords(ret) == ret.k = "df" /\ ret.v # <<>>

\* the load of the run failed or gave no record
LoadGaveNothing(ret) == ret = None \/ (ret.k = "df" /\ ret.v = <<>>)

\* C25: in a script run of main whose load fails or yields no record the
\* error of main is shown and none of the three views is rendered; a view
\* is rendered only in a run whose load returned a non-empty record set.
C25_NoViewWithoutRecords ==
    (pc = "run" /\ uploaded_file # None)
        => /\ LoadGaveNothing(extract_ret)
                => /\ st_errors # <<>>
                   /\ st_errors[Len(st_errors)] = ErrWentWrong
                   /\ shown.views = {}
           /\ shown.views # {} => LoadGaveRecords(extract_ret)

\* C25, its case: the file is no JSON: the error of the loader and the
\* error of main are on the page, and no view is.
C25_Witness ==
    /\ pc = "run"
    /\ uploaded_file # None
    /\ load_ret = Bool(FALSE)
    /\ extract_ret = None
    /\ st_errors = <<ErrReadingJson, ErrWentWrong>>
    /\ shown.views = {}
    /\ ~shown.toast

\* C30: in a session st.rerun() is called at most once, in the run that
\* is the first to render the overview; a later run with a successful
\* load renders all three tabs; the toast is shown in the runs with a
\* successful load whose file is not the one of last_uploaded_file, and
\* such a run sets last_uploaded_file to its file, no other run does.
C30_OneRerunAndToastPerNewFile ==
    [][runs' = runs + 1 =>
        LET done == session_state.initial_rerun_done # Absent
            last == session_state.last_uploaded_file
            loaded == uploaded_file' # None /\ LoadGaveRecords(extract_ret')
            differs == \/ last = Absent
                       \/ last.v.file_id # uploaded_file'.v.file_id
        IN /\ reruns' <= 1
           /\ shown'.rerun <=> (loaded /\ ~done)
           /\ shown'.rerun <=> reruns' = reruns + 1
           /\ shown'.rerun => shown'.views = {"general_overview"}
           /\ (loaded /\ done)
                => shown'.views = {"general_overview", "contact_analysis",
                                   "group_insights"}
           /\ ~loaded => shown'.views = {}
           /\ done => session_state'.initial_rerun_done # Absent
           /\ shown'.toast <=> (loaded /\ differs)
           /\ shown'.toast => session_state'.last_uploaded_file
                                  = uploaded_file'
           /\ ~shown'.toast => session_state'.last_uploaded_file = last
    ]_vars

\* C30, its case: after the run that called st.rerun() and the run it
\* asked for, the same export uploaded once more is shown with its three
\* tabs and the toast, and no st.rerun() is called again.
C30_Witness ==
    /\ pc = "run"
    /\ runs >= 3
    /\ reruns = 1
    /\ uploaded_file = UploadedFile(2, Upload(TRUE, TRUE, SessionExport))
    /\ session_state.last_uploaded_file = uploaded_file
    /\ shown.toast
    /\ ~shown.rerun
    /\ shown.views = Tabs

----------------------------------------------------------------------------
(* C7..C9: the text extraction. *)

\* what one item of a list adds to the text
Contribution(item) ==
    IF item.k = "str" THEN item.v
    ELSE IF item.k = "dict" /\ item.v.text # Absent THEN item.v.text.v
    ELSE ""

\* the contributions of the items, in list order
RECURSIVE ConcatInOrder(_)
ConcatInOrder(items) ==
    IF items = <<>> THEN ""
    ELSE Contribution(Head(items)) \o ConcatInOrder(Tail(items))

\* the text field of every tagged item is a string
StringParts(items) ==
    \A i \in 1..Len(items) :
        (items[i].k = "dict" /\ items[i].v.text # Absent)
            => items[i].v.text.k = "str"

\* C7: for a list, the extraction returns the concatenation, in list order,
\* of the string items and of the text of the tagged items (a string
\* each), and ignores every other item.
C7_ListConcatenation ==
    (text_pc # "call" /\ text_field.k = "list" /\ StringParts(text_field.v))
        => text_out = Str(ConcatInOrder(text_field.v))

\* C7, its case: ["a", {"text": "b"}, 123] gave "ab".
C7_Witness ==
    /\ text_pc = "returned"
    /\ text_field = List(<<Str("a"), Entity(Str("b")), Num(123)>>)
    /\ text_out = Str("ab")

\* C8: the extraction returns a string unchanged, and extracting from what
\* an extraction returned gives the same value again.
C8_Idempotent ==
    /\ (text_pc # "call" /\ text_field.k = "str") => text_out = text_field
    /\ text_pc = "again" => text_again = text_out

\* C9: a text field that is no string, no list and no object with a text
\* key gives the empty string.
C9_OtherShapesEmpty ==
    (/\ text_pc # "call"
     /\ text_field.k \notin {"str", "list"}
     /\ ~(text_field.k = "dict" /\ text_field.v.text # Absent))
        => text_out = Str("")

\* C9, its case: an object without a text key gave "".
C9_Witness ==
    /\ text_pc = "returned"
    /\ text_field = Entity(Absent)
    /\ text_out = Str("")

============================================================================
